---- MODULE Spec2Model ----
(***************************************************************************)
(* Model of dj-typed-settings' structural validator                        *)
(* (src/src/dj_typed_settings/validator.py) over the schema classes that   *)
(* scripts/generate_schema.py emits.                                       *)
(*                                                                         *)
(* Python values are records [t, s, items]: t is type(value).__name__, s   *)
(* the printable payload of a scalar, items the elements of a list/tuple   *)
(* or the ordered entries [k, v] of a dict or of a schema instance.        *)
(* Type hints are records [k, name, args, var]: k is what get_origin /     *)
(* isinstance(type_hint, type) make of the hint, name is hint.__name__,    *)
(* args is get_args(hint) and var marks tuple[T, ...].  A hint of kind     *)
(* "Union" is one whose get_origin is typing.Union (Optional[..],          *)
(* Union[..], and X | Y where the interpreter unifies the two).            *)
(***************************************************************************)
EXTENDS Integers, Sequences, FiniteSets, TLC

VARIABLES call, value, type_hint, field_name, schema_cls, data, ignore_errors,
          pc, errors, logged, result,
          settings_module_globals, error_log,
          content_lines, cursor, state, var_name, var_content, env_vars,
          parse_error,
          fs, file_kind, path_arg, override, path, search_dir, environ, calls,
          list_delimiter, returned,
          obj, op, outcome

\* The caller's mapping and the logger.error records of validate_settings.
settings_vars == <<settings_module_globals, error_log>>

\* The argument, the locals and the outcome of parse_env_file.
env_state == <<content_lines, cursor, state, var_name, var_content, env_vars,
               parse_error>>

\* The file system, the arguments, the locals of load_env and os.environ.
load_state == <<fs, file_kind, path_arg, override, path, search_dir, environ, calls>>

\* The delimiter argument and the value returned by cast_to_type.
cast_state == <<list_delimiter, returned>>

\* A schema object, the mapping operation last applied to it and what the
\* operation returned or raised.
schema_state == <<obj, op, outcome>>

vars == <<call, value, type_hint, field_name, schema_cls, data, ignore_errors,
          pc, errors, logged, result, settings_module_globals, error_log,
          content_lines, cursor, state, var_name, var_content, env_vars,
          parse_error,
          fs, file_kind, path_arg, override, path, search_dir, environ, calls,
          list_delimiter, returned,
          obj, op, outcome>>

(* ------------------------------ bounds -------------------------------- *)

\* Largest number of top-level keys in a generated configuration mapping.
MaxKeys == 3

(* --------------------------- Python values ---------------------------- *)

Scalar(t, s) == [t |-> t, s |-> s, items |-> <<>>]
PyInt(s) == Scalar("int", s)
PyStr(s) == Scalar("str", s)
PyBool(s) == Scalar("bool", s)
PyFloat(s) == Scalar("float", s)
PyNone == Scalar("NoneType", "None")
PyPath(s) == Scalar("PosixPath", s)
PyList(items) == [t |-> "list", s |-> "", items |-> items]
PyTuple(items) == [t |-> "tuple", s |-> "", items |-> items]
E(k, v) == [k |-> k, v |-> v]
PyDict(entries) == [t |-> "dict", s |-> "", items |-> entries]
PyObj(cls, entries) == [t |-> cls, s |-> "", items |-> entries]

\* The subclass pairs isinstance() sees among the modelled classes.
Subclass ==
    { <<"bool", "int">>, <<"PosixPath", "Path">>,
      <<"InnerSchema", "BaseSchema">>, <<"DatabaseSchema", "BaseSchema">> }

isinstance(v, cls) == v.t = cls \/ <<v.t, cls>> \in Subclass

(* ----------------------------- type hints ----------------------------- *)

Hint(k, name, args, var) == [k |-> k, name |-> name, args |-> args, var |-> var]
T(name) == Hint("type", name, <<>>, FALSE)
AnyT == Hint("Any", "Any", <<>>, FALSE)
LiteralT == Hint("Literal", "Literal", <<>>, FALSE)
UnionOf(args) == Hint("Union", "Union", args, FALSE)
ListOf(a) == Hint("list", "list", <<a>>, FALSE)
DictOf(kt, vt) == Hint("dict", "dict", <<kt, vt>>, FALSE)
TupleOf(args) == Hint("tuple", "tuple", args, FALSE)
TupleVar(a) == Hint("tuple", "tuple", <<a>>, TRUE)
NoneT == T("NoneType")
Optional(a) == UnionOf(<<a, NoneT>>)

(* ------------------------------ helpers ------------------------------- *)

RECURSIVE Join(_, _)
Join(seq, sep) ==
    IF seq = <<>> THEN ""
    ELSE IF Len(seq) = 1 THEN seq[1]
    ELSE seq[1] \o sep \o Join(Tail(seq), sep)

RECURSIVE Filter(_, _)
Filter(seq, drop) ==
    IF seq = <<>> THEN <<>>
    ELSE IF seq[1] = drop THEN Filter(Tail(seq), drop)
    ELSE <<seq[1]>> \o Filter(Tail(seq), drop)

Ok == [raised |-> FALSE, msg |-> ""]
Err(m) == [raised |-> TRUE, msg |-> m]

\* expected_item_type is dict or get_origin(expected_item_type) is dict
IsDictHint(h) == h.k = "dict" \/ (h.k = "type" /\ h.name = "dict")

\* Index of the first item that is not a dict, 0 when every item is one.
FirstNonDict(items) ==
    IF \E i \in 1..Len(items) : items[i].t # "dict"
    THEN CHOOSE i \in 1..Len(items) :
            /\ items[i].t # "dict"
            /\ \A j \in 1..(i - 1) : items[j].t = "dict"
    ELSE 0

\* UnionValidTypes without the NoneType filter.
UnionValidTypes_KeepNone(args) == [i \in 1..Len(args) |-> args[i].name]

\* valid_types of the Union branch: the names without NoneType.
UnionValidTypes(args) == Filter([i \in 1..Len(args) |-> args[i].name], "NoneType")

UnionExpected(valid_types) ==
    IF Len(valid_types) > 1
    THEN Join(SubSeq(valid_types, 1, Len(valid_types) - 1), ", ")
            \o " or " \o valid_types[Len(valid_types)]
    ELSE valid_types[1]

(* ---------------------------- validate_type --------------------------- *)

RECURSIVE validate_type(_, _, _)
validate_type(v, h, name) ==
    IF h.k = "Union" THEN
        IF \E i \in 1..Len(h.args) : ~validate_type(v, h.args[i], name).raised
        THEN Ok
        ELSE Err("If '" \o name \o "' is specified, it must be a "
                 \o UnionExpected(UnionValidTypes(h.args)) \o ", but got " \o v.t)
    ELSE IF h.k = "list" THEN
        IF v.t # "list"
        THEN Err("'" \o name \o "' must be list, got " \o v.t)
        ELSE IF Len(h.args) > 0 /\ IsDictHint(h.args[1]) /\ FirstNonDict(v.items) # 0
        THEN LET i == FirstNonDict(v.items) IN
             Err("'" \o name \o "[" \o ToString(i - 1) \o "]' must be a dict, got "
                 \o v.items[i].t)
        ELSE Ok
    ELSE IF h.k = "tuple" THEN
        IF v.t # "tuple"
        THEN Err("'" \o name \o "' must be tuple, got " \o v.t)
        ELSE Ok
    ELSE IF h.k = "dict" THEN
        IF v.t # "dict"
        THEN Err("'" \o name \o "' must be a dict, got " \o v.t)
        ELSE IF Len(h.args) > 1 /\ IsDictHint(h.args[2])
                /\ FirstNonDict([i \in 1..Len(v.items) |-> v.items[i].v]) # 0
        THEN LET i == FirstNonDict([j \in 1..Len(v.items) |-> v.items[j].v]) IN
             Err("'" \o name \o "['" \o v.items[i].k \o "']' must be a dict, got "
                 \o v.items[i].v.t)
        ELSE Ok
    ELSE IF h.k = "Any" THEN Ok
    ELSE IF h.k = "type" THEN
        IF ~isinstance(v, h.name)
        THEN Err("'" \o name \o "' must be " \o h.name \o ", got " \o v.t)
        ELSE Ok
    ELSE Ok

(* ------------------------------ schemas ------------------------------- *)

\* A dataclass field: its name, its type hint and whether both default and
\* default_factory are MISSING.
F(name, hint, required) == [name |-> name, hint |-> hint, required |-> required]

StrOrNone == Optional(T("str"))
IntOrNone == Optional(T("int"))
DictStrAny == DictOf(T("str"), AnyT)
LiteralOrStr == UnionOf(<<LiteralT, T("str")>>)
StrOrPath == UnionOf(<<T("str"), T("Path")>>)
ListOrTupleOf(a) == UnionOf(<<ListOf(a), TupleVar(a)>>)

TemplateSchema ==
    << F("BACKEND", LiteralOrStr, TRUE),
       F("DIRS", ListOf(StrOrPath), FALSE),
       F("APP_DIRS", T("bool"), FALSE),
       F("OPTIONS", DictStrAny, FALSE),
       F("NAME", StrOrNone, FALSE) >>

DatabaseSchema ==
    << F("ENGINE", LiteralOrStr, TRUE),
       F("NAME", StrOrPath, TRUE),
       F("USER", StrOrNone, FALSE),
       F("PASSWORD", StrOrNone, FALSE),
       F("HOST", StrOrNone, FALSE),
       F("PORT", UnionOf(<<T("str"), T("int"), NoneT>>), FALSE),
       F("ATOMIC_REQUESTS", T("bool"), FALSE),
       F("AUTOCOMMIT", T("bool"), FALSE),
       F("CONN_MAX_AGE", T("int"), FALSE),
       F("OPTIONS", DictStrAny, FALSE),
       F("TIME_ZONE", StrOrNone, FALSE),
       F("TEST", DictStrAny, FALSE),
       F("CONN_HEALTH_CHECKS", T("bool"), FALSE) >>

CacheSchema ==
    << F("BACKEND", LiteralOrStr, TRUE),
       F("LOCATION", StrOrNone, FALSE),
       F("TIMEOUT", IntOrNone, FALSE),
       F("OPTIONS", DictStrAny, FALSE),
       F("KEY_PREFIX", StrOrNone, FALSE),
       F("KEY_FUNCTION", StrOrNone, FALSE),
       F("VERSION", IntOrNone, FALSE) >>

AuthPasswordValidatorSchema ==
    << F("NAME", LiteralOrStr, TRUE),
       F("OPTIONS", DictStrAny, FALSE) >>

TaskSchema ==
    << F("BACKEND", LiteralOrStr, TRUE),
       F("QUEUES", ListOrTupleOf(T("str")), FALSE),
       F("OPTIONS", DictStrAny, FALSE) >>

\* The fields of the generated SettingsSchema that the validator treats
\* specially or that the claims name; the required field comes first.
SettingsSchema ==
    << F("SECRET_KEY", StrOrNone, TRUE),
       F("DEBUG", T("bool"), FALSE),
       F("DATABASES", DictOf(T("str"), T("DatabaseSchema")), FALSE),
       F("CACHES", DictOf(T("str"), T("CacheSchema")), FALSE),
       F("TEMPLATES", ListOrTupleOf(T("TemplateSchema")), FALSE),
       F("AUTH_PASSWORD_VALIDATORS", ListOrTupleOf(T("AuthPasswordValidatorSchema")), FALSE),
       F("STATICFILES_DIRS", ListOrTupleOf(StrOrPath), FALSE),
       F("TASKS", DictOf(T("str"), T("TaskSchema")), FALSE) >>

SimpleSchema ==
    << F("name", T("str"), TRUE),
       F("age", T("int"), TRUE),
       F("tags", ListOf(T("str")), TRUE),
       F("meta", Optional(DictStrAny), FALSE) >>

InnerSchema ==
    << F("name", T("str"), TRUE) >>

OuterSchema ==
    << F("inner", T("InnerSchema"), TRUE),
       F("mapping", DictOf(T("str"), T("InnerSchema")), TRUE) >>

SchemaNames == {"SettingsSchema", "SimpleSchema", "OuterSchema"}

\* fields(schema_cls) / get_type_hints(schema_cls), in declaration order.
fields(cls) ==
    CASE cls = "SettingsSchema" -> SettingsSchema
      [] cls = "SimpleSchema" -> SimpleSchema
      [] cls = "OuterSchema" -> OuterSchema
      [] cls = "InnerSchema" -> InnerSchema
      [] cls = "DatabaseSchema" -> DatabaseSchema
      [] cls = "CacheSchema" -> CacheSchema
      [] cls = "TemplateSchema" -> TemplateSchema
      [] cls = "AuthPasswordValidatorSchema" -> AuthPasswordValidatorSchema
      [] cls = "TaskSchema" -> TaskSchema

FieldNames(cls) == { fields(cls)[i].name : i \in 1..Len(fields(cls)) }

(* --------------------------- dict operations -------------------------- *)

Keys(d) == { d.items[i].k : i \in 1..Len(d.items) }
Has(d, key) == key \in Keys(d)
Get(d, key) == d.items[CHOOSE i \in 1..Len(d.items) : d.items[i].k = key].v

RECURSIVE Flatten(_)
Flatten(seqs) ==
    IF seqs = <<>> THEN <<>> ELSE seqs[1] \o Flatten(Tail(seqs))

(* ------------------------- difflib suggestions ------------------------ *)

\* get_close_matches(key, valid_keys, n=3, cutoff=0.6) for the keys the
\* model's configurations use, as difflib computes it against the field
\* names of cls (best match first); every other pair has no close match.
get_close_matches(key, cls) ==
    CASE key = "NAEM" /\ cls \in {"DatabaseSchema", "TemplateSchema",
                                    "AuthPasswordValidatorSchema"} -> <<"NAME">>
      [] key = "BACKND" /\ cls \in {"CacheSchema", "TemplateSchema", "TaskSchema"}
            -> <<"BACKEND">>
      [] key = "OPTION" /\ cls = "CacheSchema" -> <<"OPTIONS", "LOCATION">>
      [] key = "OPTION" /\ cls \in {"DatabaseSchema", "TemplateSchema", "TaskSchema",
                                      "AuthPasswordValidatorSchema"} -> <<"OPTIONS">>
      [] key = "DEBUGG" /\ cls = "SettingsSchema" -> <<"DEBUG">>
      [] key = "DATABASE" /\ cls = "SettingsSchema" -> <<"DATABASES">>
      [] key = "agee" /\ cls = "SimpleSchema" -> <<"age">>
      [] OTHER -> <<>>

\* sorted(valid_keys), joined with ", ".
SortedKeys(cls) ==
    CASE cls = "DatabaseSchema" ->
            "ATOMIC_REQUESTS, AUTOCOMMIT, CONN_HEALTH_CHECKS, CONN_MAX_AGE, ENGINE, "
            \o "HOST, NAME, OPTIONS, PASSWORD, PORT, TEST, TIME_ZONE, USER"
      [] cls = "CacheSchema" ->
            "BACKEND, KEY_FUNCTION, KEY_PREFIX, LOCATION, OPTIONS, TIMEOUT, VERSION"
      [] cls = "TemplateSchema" -> "APP_DIRS, BACKEND, DIRS, NAME, OPTIONS"
      [] cls = "AuthPasswordValidatorSchema" -> "NAME, OPTIONS"
      [] cls = "TaskSchema" -> "BACKEND, OPTIONS, QUEUES"
      [] OTHER -> ""

(* -------------------------- nested validators ------------------------- *)

\* The error of one key of a nested config in the "invalid keys" loop, as a
\* sequence of zero or one message.
InvalidKeyError(key, prefix, label, cls, ignore) ==
    IF (prefix \o "." \o key) \in ignore THEN <<>>
    ELSE IF key \in FieldNames(cls) THEN <<>>
    ELSE LET suggestions == get_close_matches(key, cls) IN
         << "Invalid key '" \o key \o "' in " \o label \o "."
            \o (IF suggestions # <<>>
                THEN " Did you mean: " \o Join(suggestions, ", ") \o "?"
                ELSE " Valid keys are: " \o SortedKeys(cls)) >>

\* The error of one declared field of a nested config in the "required
\* fields and types" loop, as a sequence of zero or one message.
NestedFieldError(f, prefix, label, config, ignore) ==
    IF (prefix \o "." \o f.name) \in ignore THEN <<>>
    ELSE IF ~Has(config, f.name)
    THEN IF f.required
         THEN << "Missing required key '" \o f.name \o "' in " \o label >>
         ELSE <<>>
    ELSE LET r == validate_type(Get(config, f.name), f.hint, prefix \o "." \o f.name) IN
         IF r.raised THEN << r.msg >> ELSE <<>>

\* validate_nested without the early return for an ignored entry.
validate_nested_NoEntryIgnore(prefix, label, cls, config, ignore) ==
    Flatten([i \in 1..Len(config.items) |->
                InvalidKeyError(config.items[i].k, prefix, label, cls, ignore)])
    \o Flatten([i \in 1..Len(fields(cls)) |->
                NestedFieldError(fields(cls)[i], prefix, label, config, ignore)])

\* The body the four validate_nested_* functions share: prefix is the dotted
\* path of the entry, label its bracketed form in messages.
validate_nested(prefix, label, cls, config, ignore) ==
    IF prefix \in ignore THEN <<>>
    ELSE Flatten([i \in 1..Len(config.items) |->
                    InvalidKeyError(config.items[i].k, prefix, label, cls, ignore)])
         \o Flatten([i \in 1..Len(fields(cls)) |->
                    NestedFieldError(fields(cls)[i], prefix, label, config, ignore)])

validate_nested_database(db_name, db_config, ignore) ==
    validate_nested("DATABASES." \o db_name, "DATABASES['" \o db_name \o "']",
                    "DatabaseSchema", db_config, ignore)

validate_nested_cache(cache_name, cache_config, ignore) ==
    validate_nested("CACHES." \o cache_name, "CACHES['" \o cache_name \o "']",
                    "CacheSchema", cache_config, ignore)

validate_nested_template(index, template_config, ignore) ==
    validate_nested("TEMPLATES." \o ToString(index),
                    "TEMPLATES[" \o ToString(index) \o "]",
                    "TemplateSchema", template_config, ignore)

validate_nested_auth_password_validator(index, validator_config, ignore) ==
    validate_nested("AUTH_PASSWORD_VALIDATORS." \o ToString(index),
                    "AUTH_PASSWORD_VALIDATORS[" \o ToString(index) \o "]",
                    "AuthPasswordValidatorSchema", validator_config, ignore)

(* --------------------- validate_data_against_schema ------------------- *)

\* One iteration of the loop over the declared fields: the messages it
\* appends to errors.
FieldErrors(f, d, ignore) ==
    IF f.name \in ignore THEN <<>>
    ELSE IF ~Has(d, f.name)
    THEN IF f.required THEN << "Missing required setting: " \o f.name >> ELSE <<>>
    ELSE LET v == Get(d, f.name)
             r == validate_type(v, f.hint, f.name)
         IN
         IF r.raised THEN << r.msg >>
         ELSE IF f.name = "DATABASES" /\ v.t = "dict"
         THEN Flatten([i \in 1..Len(v.items) |->
                IF v.items[i].v.t = "dict"
                THEN validate_nested_database(v.items[i].k, v.items[i].v, ignore)
                ELSE <<>>])
         ELSE IF f.name = "CACHES" /\ v.t = "dict"
         THEN Flatten([i \in 1..Len(v.items) |->
                IF v.items[i].v.t = "dict"
                THEN validate_nested_cache(v.items[i].k, v.items[i].v, ignore)
                ELSE <<>>])
         ELSE IF f.name = "TEMPLATES" /\ v.t = "list"
         THEN Flatten([i \in 1..Len(v.items) |->
                IF v.items[i].t = "dict"
                THEN validate_nested_template(i - 1, v.items[i], ignore)
                ELSE <<>>])
         ELSE IF f.name = "AUTH_PASSWORD_VALIDATORS" /\ v.t = "list"
         THEN Flatten([i \in 1..Len(v.items) |->
                IF v.items[i].t = "dict"
                THEN validate_nested_auth_password_validator(i - 1, v.items[i], ignore)
                ELSE <<>>])
         ELSE <<>>

\* SchemaErrors that stops at the first field that reports anything.
SchemaErrors_FailFast(d, cls, ignore) ==
    LET per == [i \in 1..Len(fields(cls)) |-> FieldErrors(fields(cls)[i], d, ignore)] IN
    IF \E i \in 1..Len(per) : per[i] # <<>>
    THEN per[CHOOSE i \in 1..Len(per) :
                per[i] # <<>> /\ \A j \in 1..(i - 1) : per[j] = <<>>]
    ELSE <<>>

\* The errors list after the loop over get_type_hints(schema_cls).
SchemaErrors(d, cls, ignore) ==
    Flatten([i \in 1..Len(fields(cls)) |-> FieldErrors(fields(cls)[i], d, ignore)])

\* setting_name.startswith("_") over the key names the model uses.
StartsWithUnderscore(key) == key \in {"_PRIVATE", "__name__"}

common_unvalidated_settings ==
    { "TYPED_SETTINGS_IGNORE_ERRORS", "BASE_DIR", "SITE_ID", "APPEND_SLASH",
      "PREPEND_WWW", "DEFAULT_AUTO_FIELD", "USE_THOUSAND_SEPARATOR",
      "NUMBER_GROUPING", "DECIMAL_SEPARATOR", "THOUSAND_SEPARATOR", "DATE_FORMAT",
      "DATETIME_FORMAT", "TIME_FORMAT", "SHORT_DATE_FORMAT", "SHORT_DATETIME_FORMAT",
      "FIRST_DAY_OF_WEEK", "DATE_INPUT_FORMATS", "TIME_INPUT_FORMATS",
      "DATETIME_INPUT_FORMATS", "YEAR_MONTH_FORMAT", "MONTH_DAY_FORMAT" }

\* UnknownSetting with the error appended as well as logged.
UnknownSetting_Append(setting_name, cls, ignore) ==
    IF StartsWithUnderscore(setting_name) \/ setting_name \in ignore
          \/ setting_name \in FieldNames(cls)
          \/ setting_name \in common_unvalidated_settings
          \/ get_close_matches(setting_name, cls) = <<>>
    THEN [errors |-> <<>>, logged |-> <<>>]
    ELSE LET m == "Unknown setting '" \o setting_name \o "'. Did you mean: "
                  \o Join(get_close_matches(setting_name, cls), ", ") \o "?"
         IN [errors |-> << m >>, logged |-> << m >>]

\* One iteration of the loop over data.keys(): what it appends to errors and
\* what it hands to logger.debug.
UnknownSetting(setting_name, cls, ignore) ==
    IF StartsWithUnderscore(setting_name) \/ setting_name \in ignore
    THEN [errors |-> <<>>, logged |-> <<>>]
    ELSE IF setting_name \in FieldNames(cls)
    THEN [errors |-> <<>>, logged |-> <<>>]
    ELSE IF setting_name \in common_unvalidated_settings
    THEN [errors |-> <<>>, logged |-> <<>>]
    ELSE LET suggestions == get_close_matches(setting_name, cls) IN
         IF suggestions # <<>>
         THEN [errors |-> <<>>,
               logged |-> << "Unknown setting '" \o setting_name \o "'. Did you mean: "
                             \o Join(suggestions, ", ") \o "?" >>]
         ELSE [errors |-> <<>>, logged |-> <<>>]

UnknownErrors(d, cls, ignore) ==
    Flatten([i \in 1..Len(d.items) |-> UnknownSetting(d.items[i].k, cls, ignore).errors])

UnknownLogged(d, cls, ignore) ==
    Flatten([i \in 1..Len(d.items) |-> UnknownSetting(d.items[i].k, cls, ignore).logged])

\* if errors: raise ValueError("\n".join(errors))
RaiseIfErrors(errs) == IF errs # <<>> THEN Err(Join(errs, "\n")) ELSE Ok

\* The whole call, as the list of messages of the error it raises.
validate_data_against_schema(d, cls, ignore) ==
    SchemaErrors(d, cls, ignore) \o UnknownErrors(d, cls, ignore)

(* ------------------------------- inputs ------------------------------- *)

GoodDb == PyDict(<< E("ENGINE", PyStr("django.db.backends.sqlite3")),
                    E("NAME", PyStr("db.sqlite3")) >>)
TypoDb == PyDict(<< E("NAEM", PyStr("db.sqlite3")) >>)
TwoBadKeysDb == PyDict(<< E("ENGINE", PyStr("django.db.backends.sqlite3")),
                          E("NAME", PyStr("db.sqlite3")),
                          E("INVALID_KEY", PyStr("value1")),
                          E("ANOTHER_INVALID", PyStr("value2")) >>)
BadPortDb == PyDict(<< E("ENGINE", PyStr("django.db.backends.sqlite3")),
                       E("NAME", PyPath("db.sqlite3")),
                       E("PORT", PyFloat("1.5")) >>)
GoodCache == PyDict(<< E("BACKEND", PyStr("django.core.cache.backends.locmem.LocMemCache")) >>)
TypoCache == PyDict(<< E("BACKEND", PyStr("django.core.cache.backends.locmem.LocMemCache")),
                       E("OPTION", PyDict(<<>>)) >>)
GoodTemplate == PyDict(<< E("BACKEND", PyStr("django.template.backends.django.DjangoTemplates")),
                          E("DIRS", PyList(<< PyPath("templates") >>)) >>)
TypoTemplate == PyDict(<< E("BACKND", PyStr("django.template.backends.django.DjangoTemplates")) >>)
TypoValidator == PyDict(<< E("NAEM", PyStr("MinimumLengthValidator")) >>)
BadTask == PyDict(<< E("BACKEND", PyStr("django.tasks.backends.dummy.DummyBackend")),
                     E("INVALID_KEY", PyStr("value1")) >>)
InnerObj == PyObj("InnerSchema", << E("name", PyStr("foo")) >>)
InnerDict == PyDict(<< E("name", PyStr("foo")) >>)

\* The keys a generated configuration for cls may hold, in the order they are
\* inserted: the declared fields, then keys the schema does not declare.
KeyList(cls) ==
    CASE cls = "SettingsSchema" ->
            << "SECRET_KEY", "DEBUG", "DATABASES", "CACHES", "TEMPLATES",
               "AUTH_PASSWORD_VALIDATORS", "STATICFILES_DIRS", "TASKS",
               "DEBUGG", "SOME_NEW_SETTING", "_PRIVATE", "BASE_DIR" >>
      [] cls = "SimpleSchema" -> << "name", "age", "tags", "meta", "agee" >>
      [] cls = "OuterSchema" -> << "inner", "mapping", "extra" >>

\* The values a generated configuration may give a key.
Options(key) ==
    CASE key = "SECRET_KEY" -> { PyStr("my-secret-key"), PyInt("5") }
      [] key = "DEBUG" -> { PyBool("True"), PyStr("not-a-bool") }
      [] key = "DATABASES" ->
            { PyDict(<< E("default", GoodDb) >>),
              PyDict(<< E("default", TypoDb) >>),
              PyDict(<< E("default", TwoBadKeysDb) >>),
              PyDict(<< E("default", GoodDb), E("replica", BadPortDb) >>),
              PyDict(<< E("default", PyStr("not-a-dict")) >>),
              PyStr("not-a-dict") }
      [] key = "CACHES" ->
            { PyDict(<< E("default", GoodCache) >>),
              PyDict(<< E("default", TypoCache) >>),
              PyDict(<< E("default", PyStr("not-a-dict")) >>) }
      [] key = "TEMPLATES" ->
            { PyList(<< GoodTemplate >>),
              PyList(<< GoodTemplate, TypoTemplate >>),
              PyTuple(<< GoodTemplate, TypoTemplate >>),
              PyList(<< PyStr("not-a-dict") >>),
              PyStr("not-a-list") }
      [] key = "AUTH_PASSWORD_VALIDATORS" ->
            { PyList(<< TypoValidator >>), PyTuple(<< TypoValidator >>) }
      [] key = "STATICFILES_DIRS" ->
            { PyList(<< PyStr("static"), PyPath("assets") >>),
              PyList(<< PyInt("123") >>) }
      [] key = "TASKS" ->
            { PyDict(<< E("default", BadTask) >>),
              PyDict(<< E("default", PyStr("not-a-dict")) >>) }
      [] key = "DEBUGG" -> { PyBool("True") }
      [] key = "SOME_NEW_SETTING" -> { PyStr("hello") }
      [] key = "_PRIVATE" -> { PyInt("1") }
      [] key = "BASE_DIR" -> { PyPath("/srv/app") }
      [] key = "name" -> { PyStr("Test"), PyInt("1") }
      [] key = "age" -> { PyInt("10"), PyStr("wrong"), PyBool("True") }
      [] key = "tags" -> { PyList(<<>>), PyList(<< PyStr("one"), PyStr("two") >>),
                           PyList(<< PyInt("123") >>), PyStr("x") }
      [] key = "meta" -> { PyDict(<< E("key", PyStr("value")) >>), PyNone, PyStr("m") }
      [] key = "agee" -> { PyInt("3") }
      [] key = "inner" -> { InnerObj, InnerDict, PyStr("foo") }
      [] key = "mapping" -> { PyDict(<< E("key", InnerObj) >>),
                              PyDict(<< E("key", InnerDict) >>),
                              PyStr("foo") }
      [] key = "extra" -> { PyInt("1") }

\* The entry lists that take at most n of keys[i..], each with one of its
\* options, in the order of keys.
RECURSIVE GenEntries(_, _, _)
GenEntries(keys, i, n) ==
    IF i > Len(keys) THEN { <<>> }
    ELSE GenEntries(keys, i + 1, n)
         \cup (IF n = 0 THEN {}
               ELSE { << E(keys[i], v) >> \o rest :
                        v \in Options(keys[i]), rest \in GenEntries(keys, i + 1, n - 1) })

\* The configurations generated for cls: SettingsSchema ones hold at most
\* MaxKeys keys, the small schemas' ones any of their keys.
DataFor(cls) ==
    { PyDict(es) : es \in GenEntries(KeyList(cls), 1,
                        IF cls = "SettingsSchema" THEN MaxKeys ELSE Len(KeyList(cls))) }

\* The ignore lists (TYPED_SETTINGS_IGNORE_ERRORS) tried with cls.
IgnoreFor(cls) ==
    CASE cls = "SettingsSchema" ->
            { {}, {"DATABASES.default"}, {"DATABASES", "DEBUGG"},
              {"DEBUG", "DATABASES.replica.PORT"},
              {"DATABASES.default.INVALID_KEY"},
              {"DATABASES.default.NAEM", "DATABASES.default.ENGINE",
               "CACHES.default", "TEMPLATES.1.BACKND"} }
      [] cls = "SimpleSchema" -> { {}, {"age"} }
      [] cls = "OuterSchema" -> { {} }

\* The values and hints validate_type is called with directly.
Values ==
    { PyInt("1"), PyBool("True"), PyBool("False"), PyFloat("1.5"),
      PyStr(""), PyStr("123"), PyStr("invalid_port"), PyNone, PyPath("static"),
      PyList(<<>>), PyList(<< PyStr("a"), PyStr("b") >>), PyList(<< PyInt("123") >>),
      PyList(<< PyStr("a"), PyInt("123") >>),
      PyList(<< PyDict(<<>>), PyStr("x") >>),
      PyTuple(<<>>), PyTuple(<< PyInt("1") >>), PyTuple(<< PyInt("1"), PyStr("a") >>),
      PyTuple(<< PyStr("a"), PyStr("b") >>), PyTuple(<< PyStr("a"), PyInt("1") >>),
      PyDict(<<>>), PyDict(<< E("a", PyInt("1")) >>), PyDict(<< E("a", PyStr("x")) >>),
      PyDict(<< E("default", PyDict(<<>>)), E("other", PyStr("not-a-dict")) >>),
      InnerObj }

Hints ==
    { T("int"), T("str"), T("bool"), T("float"), T("list"), T("tuple"), T("dict"),
      T("Path"), T("InnerSchema"), AnyT, LiteralT,
      UnionOf(<< T("int"), T("str") >>), UnionOf(<< T("str"), T("int") >>),
      Optional(T("int")), UnionOf(<< T("str"), T("int"), NoneT >>),
      UnionOf(<< T("bool"), T("float"), T("Path") >>),
      UnionOf(<< T("list"), T("tuple") >>),
      ListOf(T("str")), ListOf(StrOrPath), ListOf(T("dict")), ListOf(DictStrAny),
      TupleVar(T("str")), TupleOf(<< T("int"), T("str") >>),
      DictOf(T("str"), T("int")), DictStrAny, DictOf(T("str"), T("dict")),
      DictOf(T("str"), T("CacheSchema")),
      ListOrTupleOf(T("str")), ListOrTupleOf(StrOrPath), LiteralOrStr }

FieldPaths == { "field", "STATICFILES_DIRS", "CACHES" }

(* --------------------------- validate_settings ------------------------ *)

\* k.startswith("__") over the key names the model uses.
StartsWithDunder(key) == key \in {"__name__", "__file__"}

\* clean_settings that keeps every key.
clean_settings_KeepAll(globals) == globals

\* {k: v for k, v in settings_module_globals.items() if not k.startswith("__")}
clean_settings(globals) ==
    PyDict(SelectSeq(globals.items, LAMBDA e : ~StartsWithDunder(e.k)))

\* settings_module_globals.get("TYPED_SETTINGS_IGNORE_ERRORS", [])
get_ignore_errors(globals) ==
    IF Has(globals, "TYPED_SETTINGS_IGNORE_ERRORS")
    THEN Get(globals, "TYPED_SETTINGS_IGNORE_ERRORS")
    ELSE PyList(<<>>)

\* "name in ignore_errors" is defined for a list and raises TypeError for an int.
Iterable(v) == v.t \in {"list", "tuple"}

\* The names a list of strings holds.
Members(v) == { v.items[i].s : i \in 1..Len(v.items) }

\* The module globals validate_settings is called with: dunder names, the
\* ignore list and settings, at most MaxKeys of them.
GlobalsKeys ==
    << "__name__", "__file__", "TYPED_SETTINGS_IGNORE_ERRORS", "SECRET_KEY",
       "DEBUG", "DATABASES", "DEBUGG", "_PRIVATE" >>

GlobalsOptions(key) ==
    CASE key = "__name__" -> { PyStr("project.settings") }
      [] key = "__file__" -> { PyStr("/srv/app/project/settings.py") }
      [] key = "TYPED_SETTINGS_IGNORE_ERRORS" ->
            { PyList(<< PyStr("DEBUG") >>),
              PyList(<< PyStr("DATABASES.default"), PyStr("SECRET_KEY") >>),
              PyInt("5") }
      [] key = "DATABASES" ->
            { PyDict(<< E("default", GoodDb) >>),
              PyDict(<< E("default", TwoBadKeysDb) >>),
              PyStr("not-a-dict") }
      [] OTHER -> Options(key)

RECURSIVE GenGlobals(_, _)
GenGlobals(i, n) ==
    IF i > Len(GlobalsKeys) THEN { <<>> }
    ELSE GenGlobals(i + 1, n)
         \cup (IF n = 0 THEN {}
               ELSE { << E(GlobalsKeys[i], v) >> \o rest :
                        v \in GlobalsOptions(GlobalsKeys[i]),
                        rest \in GenGlobals(i + 1, n - 1) })

Globals == { PyDict(es) : es \in GenGlobals(1, MaxKeys) }

(* ---------------------------- specification --------------------------- *)

NoValue == PyNone
NoData == PyDict(<<>>)
NoError == [issue |-> "", offset |-> 0]

\* No parse_env_file call is in progress.
EnvIdle ==
    /\ content_lines = <<>>
    /\ cursor = 0
    /\ state = "SCAN_VAR_NAME"
    /\ var_name = <<>>
    /\ var_content = <<>>
    /\ env_vars = <<>>
    /\ parse_error = NoError

\* A path that names nothing.
NoPath == [absolute |-> FALSE, dir |-> 0, up |-> 0]

\* No load_env call is in progress.
LoadIdle ==
    /\ fs = <<>>
    /\ file_kind = ""
    /\ path_arg = NoPath
    /\ override = FALSE
    /\ path = NoPath
    /\ search_dir = 0
    /\ environ = <<>>
    /\ calls = 0

\* No cast_to_type call is in progress.
CastIdle ==
    /\ list_delimiter = ","
    /\ returned = PyNone

\* No schema object is in use.
NoOp == [name |-> "", key |-> "", value |-> PyNone]
NoOutcome == [raised |-> "", value |-> PyNone]
NoObject == [cls |-> "", dict |-> <<>>]

SchemaIdle ==
    /\ obj = NoObject
    /\ op = NoOp
    /\ outcome = NoOutcome

Init ==
    /\ pc = "start"
    /\ errors = <<>>
    /\ logged = <<>>
    /\ error_log = <<>>
    /\ result = Ok
    /\ EnvIdle
    /\ LoadIdle
    /\ CastIdle
    /\ SchemaIdle
    /\ \/ /\ call = "validate_type"
          /\ value \in Values
          /\ type_hint \in Hints
          /\ field_name \in FieldPaths
          /\ schema_cls = "SimpleSchema"
          /\ data = NoData
          /\ ignore_errors = {}
          /\ settings_module_globals = NoData
       \/ /\ call = "validate_data_against_schema"
          /\ schema_cls \in SchemaNames
          /\ data \in DataFor(schema_cls)
          /\ ignore_errors \in IgnoreFor(schema_cls)
          /\ value = NoValue
          /\ type_hint = AnyT
          /\ field_name = ""
          /\ settings_module_globals = NoData
       \/ /\ call = "validate_settings"
          /\ settings_module_globals \in Globals
          /\ schema_cls = "SettingsSchema"
          /\ data = NoData
          /\ ignore_errors = {}
          /\ value = NoValue
          /\ type_hint = AnyT
          /\ field_name = ""

\* validate_type(value, type_hint, field_name), called directly.
ValidateType ==
    /\ pc = "start"
    /\ call = "validate_type"
    /\ result' = validate_type(value, type_hint, field_name)
    /\ pc' = "done"
    /\ UNCHANGED <<call, value, type_hint, field_name, schema_cls, data,
                   ignore_errors, errors, logged>>
    /\ UNCHANGED settings_vars
    /\ UNCHANGED env_state
    /\ UNCHANGED load_state
    /\ UNCHANGED cast_state
    /\ UNCHANGED schema_state

\* validate_settings up to its call of validate_data_against_schema: the
\* first debug record, clean_settings and the ignore list.  With an ignore
\* value that is no list the callee's first "name in ignore_errors" raises
\* the TypeError at once.
EnterValidateSettings ==
    /\ pc = "start"
    /\ call = "validate_settings"
    /\ logged' = << "Validating Settings..." >>
    /\ data' = clean_settings(settings_module_globals)
    /\ IF Iterable(get_ignore_errors(settings_module_globals))
       THEN /\ ignore_errors' = Members(get_ignore_errors(settings_module_globals))
            /\ result' = result
            /\ pc' = "fields"
       ELSE /\ ignore_errors' = ignore_errors
            /\ result' = Err("argument of type '"
                             \o get_ignore_errors(settings_module_globals).t
                             \o "' is not iterable")
            /\ pc' = "done"
    /\ UNCHANGED <<call, value, type_hint, field_name, schema_cls, errors>>
    /\ UNCHANGED settings_vars
    /\ UNCHANGED env_state
    /\ UNCHANGED load_state
    /\ UNCHANGED cast_state
    /\ UNCHANGED schema_state

\* CheckFields that also drops from data the keys schema_cls does not declare.
CheckFields_DropUnknown ==
    /\ \/ pc = "start" /\ call = "validate_data_against_schema"
       \/ pc = "fields" /\ call = "validate_settings"
    /\ errors' = SchemaErrors(data, schema_cls, ignore_errors)
    /\ data' = PyDict(SelectSeq(data.items, LAMBDA e : e.k \in FieldNames(schema_cls)))
    /\ pc' = "unknown"
    /\ UNCHANGED <<call, value, type_hint, field_name, schema_cls,
                   ignore_errors, logged, result>>
    /\ UNCHANGED settings_vars
    /\ UNCHANGED env_state
    /\ UNCHANGED load_state
    /\ UNCHANGED cast_state
    /\ UNCHANGED schema_state

\* validate_data_against_schema: the loop over the declared fields.
CheckFields ==
    /\ \/ pc = "start" /\ call = "validate_data_against_schema"
       \/ pc = "fields" /\ call = "validate_settings"
    /\ errors' = SchemaErrors(data, schema_cls, ignore_errors)
    /\ pc' = "unknown"
    /\ UNCHANGED <<call, value, type_hint, field_name, schema_cls, data,
                   ignore_errors, logged, result>>
    /\ UNCHANGED settings_vars
    /\ UNCHANGED env_state
    /\ UNCHANGED load_state
    /\ UNCHANGED cast_state
    /\ UNCHANGED schema_state

\* validate_data_against_schema: the loop over the keys of data.
CheckUnknown ==
    /\ pc = "unknown"
    /\ errors' = errors \o UnknownErrors(data, schema_cls, ignore_errors)
    /\ logged' = logged \o UnknownLogged(data, schema_cls, ignore_errors)
    /\ pc' = "raise"
    /\ UNCHANGED <<call, value, type_hint, field_name, schema_cls, data,
                   ignore_errors, result>>
    /\ UNCHANGED settings_vars
    /\ UNCHANGED env_state
    /\ UNCHANGED load_state
    /\ UNCHANGED cast_state
    /\ UNCHANGED schema_state

\* validate_data_against_schema: raise the ValueError or return.
Finish ==
    /\ pc = "raise"
    /\ result' = RaiseIfErrors(errors)
    /\ pc' = "done"
    /\ UNCHANGED <<call, value, type_hint, field_name, schema_cls, data,
                   ignore_errors, errors, logged>>
    /\ UNCHANGED settings_vars
    /\ UNCHANGED env_state
    /\ UNCHANGED load_state
    /\ UNCHANGED cast_state
    /\ UNCHANGED schema_state

\* validate_settings after the call: the debug record of a valid
\* configuration or, in the except clause, the one error record; either way
\* the function returns None.  The records are modelled without their
\* leading emoji.
ReturnValidateSettings ==
    /\ pc = "done"
    /\ call = "validate_settings"
    /\ IF result.raised
       THEN /\ error_log' = Append(error_log, "INVALID SETTINGS: " \o result.msg)
            /\ logged' = logged
       ELSE /\ logged' = Append(logged, "Settings are valid.")
            /\ error_log' = error_log
    /\ result' = Ok
    /\ pc' = "returned"
    /\ UNCHANGED <<call, value, type_hint, field_name, schema_cls, data,
                   ignore_errors, errors, settings_module_globals>>
    /\ UNCHANGED env_state
    /\ UNCHANGED load_state
    /\ UNCHANGED cast_state
    /\ UNCHANGED schema_state

Next ==
    \/ ValidateType
    \/ EnterValidateSettings
    \/ CheckFields
    \/ CheckUnknown
    \/ Finish
    \/ ReturnValidateSettings

Spec == Init /\ [][Next]_vars

(* --------------------------- parse_env_file --------------------------- *)

\* Text is a sequence of one-character strings; offsets are 0-based as in
\* Python, so the character at offset i of s is s[i + 1].

\* The characters of the model that \s matches.
Space == {" ", "\n", "\t"}

\* [a-zA-Z_] and [a-zA-Z_0-9] over the characters of the model.
NameStart == {"A", "B", "a", "b", "c", "e", "o", "p", "r", "t", "x", "_"}
NameChar == NameStart \cup {"0", "1"}

\* [\s\t;]
Skippable == Space \cup {";"}

\* The terminators of UNQUOTED_VALUE_PATTERN: \t, \s, ;, ', " and backslash.
Terminators == Space \cup {";", "'", "\"", "\\"}

\* The offset of the first character at or after i that is not in cls, the
\* length of s when there is none: where a greedy cls* ends.
RECURSIVE Skip(_, _, _)
Skip(s, i, cls) ==
    IF i < Len(s) /\ s[i + 1] \in cls THEN Skip(s, i + 1, cls) ELSE i

\* The offset of the first character at or after i that is in cls, the
\* length of s when there is none: where a lazy prefix ends.
RECURSIVE Find(_, _, _)
Find(s, i, cls) ==
    IF i < Len(s) /\ s[i + 1] \notin cls THEN Find(s, i + 1, cls) ELSE i

\* "\\" * n
RECURSIVE Backslashes(_)
Backslashes(n) == IF n = 0 THEN <<>> ELSE <<"\\">> \o Backslashes(n - 1)

\* content = "".join(content_lines) + "\n"
content(lines) == Flatten(lines) \o <<"\n">>

NoMatch == [ok |-> FALSE, name |-> <<>>, end |-> 0]

\* ([a-zA-Z_][a-zA-Z_0-9]*) at offset q, followed by "=" when assign is TRUE.
NameAt(s, q, assign) ==
    IF q < Len(s) /\ s[q + 1] \in NameStart
    THEN LET e == Skip(s, q + 1, NameChar) IN
         IF assign
         THEN IF e < Len(s) /\ s[e + 1] = "="
              THEN [ok |-> TRUE, name |-> SubSeq(s, q + 1, e), end |-> e + 1]
              ELSE NoMatch
         ELSE [ok |-> TRUE, name |-> SubSeq(s, q + 1, e), end |-> e]
    ELSE NoMatch

\* VARNAME_PATTERN (ASSIGNMENT_PATTERN when assign is TRUE) matched at offset
\* p: the skippable prefix, then "export" and whitespace if a name follows
\* them, else the name at once.
MatchVarName(s, p, assign) ==
    LET q == Skip(s, p, Skippable)
        exported ==
            IF /\ q + 6 < Len(s)
               /\ SubSeq(s, q + 1, q + 6) = <<"e", "x", "p", "o", "r", "t">>
               /\ s[q + 7] \in Space
            THEN NameAt(s, Skip(s, q + 6, Space), assign)
            ELSE NoMatch
    IN IF exported.ok THEN exported ELSE NameAt(s, q, assign)

\* The offsets where "^" matches under re.MULTILINE in content[cursor:]: the
\* start of the slice and the offset after each newline of the slice.
LineStarts(s, c) == {c} \cup { i \in (c + 1)..Len(s) : s[i] = "\n" }

\* re.search(ASSIGNMENT_PATTERN, content[cursor:], re.MULTILINE): the match
\* at the leftmost line start that has one.
SearchAssignment(s, c) ==
    LET starts == { p \in LineStarts(s, c) : MatchVarName(s, p, TRUE).ok } IN
    IF starts = {} THEN NoMatch
    ELSE MatchVarName(s, CHOOSE p \in starts : \A o \in starts : p <= o, TRUE)

\* MatchComment that never matches.
MatchComment_Never(s, c) == NoMatch

\* A comment match that ends one character after the newline.
MatchComment_PastNewline(s, c) ==
    LET q == Skip(s, c, Skippable) IN
    IF q < Len(s) /\ s[q + 1] = "#" /\ Find(s, q + 1, {"\n"}) < Len(s)
    THEN [ok |-> TRUE, name |-> <<>>, end |-> Find(s, q + 1, {"\n"}) + 2]
    ELSE NoMatch

\* re.match(COMMENT_SUFFIX_PATTERN, content[cursor:]): the end of the match.
MatchComment(s, c) ==
    LET q == Skip(s, c, Skippable) IN
    IF q < Len(s) /\ s[q + 1] = "#" /\ Find(s, q + 1, {"\n"}) < Len(s)
    THEN [ok |-> TRUE, name |-> <<>>, end |-> Find(s, q + 1, {"\n"}) + 1]
    ELSE NoMatch

\* Put that appends an entry even when the key is present.
Put_Append(d, k, v) == Append(d, E(k, v))

\* result[var_name] = value: a present key keeps its place.
Put(d, k, v) ==
    IF \E i \in 1..Len(d) : d[i].k = k
    THEN [i \in 1..Len(d) |-> IF d[i].k = k THEN E(k, v) ELSE d[i]]
    ELSE Append(d, E(k, v))

\* raise ParseError(issue, offset, content_lines)
Raise(st, issue, offset) ==
    [st EXCEPT !.pc = "raised", !.error = [issue |-> issue, offset |-> offset]]

\* ParseError._get_line_number(position, lines): the line and the position
\* in it that the exception reports for an offset into content.
RECURSIVE get_line_number(_, _, _)
get_line_number(position, lines, line_num) ==
    IF lines = <<>> THEN [line_num |-> line_num, position |-> position]
    ELSE IF Len(lines[1]) > position
    THEN [line_num |-> line_num, position |-> position]
    ELSE get_line_number(position - Len(lines[1]), Tail(lines), line_num + 1)

\* ParseError.__init__: line_num and position of a raised error.
ErrorLocation(error, lines) == get_line_number(error.offset, lines, 1)

\* break / falling out of the while loop: return result
Return(st) == [st EXCEPT !.pc = "returned"]

\* The block of the loop for SCAN_VAR_NAME.
scan_var_name(s, st) ==
    LET c == st.cursor
        match == SearchAssignment(s, c)
    IN
    IF ~match.ok
    THEN IF MatchComment(s, c).ok
         THEN [st EXCEPT !.cursor = MatchComment(s, c).end]
         ELSE IF Skip(s, c, Skippable) = Len(s)
         THEN Return(st)
         ELSE LET w == Skip(s, c, Space) IN
              IF w >= Len(s) THEN Return([st EXCEPT !.cursor = w])
              ELSE IF MatchVarName(s, w, FALSE).ok
              THEN Raise([st EXCEPT !.cursor = MatchVarName(s, w, FALSE).end],
                         "Expected assignment operator", MatchVarName(s, w, FALSE).end)
              ELSE Raise([st EXCEPT !.cursor = w], "Expected variable assignment", w)
    ELSE [st EXCEPT !.var_name = match.name, !.cursor = match.end,
                    !.state = "SCAN_VALUE"]

\* What an odd run of backslashes outside quotes makes of the next character.
escaped_unquoted_KeepNewline(next_char) == <<next_char>>

escaped_unquoted(next_char) == IF next_char = "\n" THEN <<>> ELSE <<next_char>>

\* The block of the loop for SCAN_VALUE.
scan_value(s, st) ==
    LET c == st.cursor
        j == Find(s, c, Terminators)
    IN
    IF j >= Len(s) THEN Return(st)
    ELSE LET collected == st.var_content \o SubSeq(s, c + 1, j) IN
         IF s[j + 1] \in Space \/ s[j + 1] = ";"
         THEN IF st.var_name = <<>> THEN Return([st EXCEPT !.var_content = collected,
                                                         !.cursor = j])
              ELSE [st EXCEPT !.result = Put(st.result, st.var_name, collected),
                              !.var_name = <<>>, !.var_content = <<>>,
                              !.cursor = j, !.state = "SCAN_VAR_NAME"]
         ELSE IF s[j + 1] = "'"
         THEN [st EXCEPT !.var_content = collected, !.cursor = j + 1,
                         !.state = "IN_SINGLE_QUOTE"]
         ELSE IF s[j + 1] = "\""
         THEN [st EXCEPT !.var_content = collected, !.cursor = j + 1,
                         !.state = "IN_DOUBLE_QUOTE"]
         ELSE LET num_backslashes == Skip(s, j, {"\\"}) - j
                  kept == collected \o Backslashes(num_backslashes \div 2)
                  after == j + num_backslashes
              IN
              IF num_backslashes % 2 # 0 /\ after < Len(s)
              THEN [st EXCEPT !.var_content = kept \o escaped_unquoted(s[after + 1]),
                              !.cursor = after + 1]
              ELSE [st EXCEPT !.var_content = kept, !.cursor = after]

\* in_single_quote that commits the assignment when the quote closes.
in_single_quote_Commit(s, st) ==
    LET c == st.cursor
        j == Find(s, c, {"'"})
    IN
    IF j >= Len(s) THEN Raise(st, "Unmatched single quote", c)
    ELSE [st EXCEPT !.result = Put(st.result, st.var_name,
                                   st.var_content \o SubSeq(s, c + 1, j)),
                    !.var_name = <<>>, !.var_content = <<>>,
                    !.cursor = j + 1, !.state = "SCAN_VAR_NAME"]

\* The block of the loop for IN_SINGLE_QUOTE.
in_single_quote(s, st) ==
    LET c == st.cursor
        j == Find(s, c, {"'"})
    IN
    IF j >= Len(s) THEN Raise(st, "Unmatched single quote", c)
    ELSE [st EXCEPT !.var_content = st.var_content \o SubSeq(s, c + 1, j),
                    !.cursor = j + 1, !.state = "SCAN_VALUE"]

\* What an odd run of backslashes inside double quotes makes of the next
\* character.
escaped_in_double_quote_DropBackslash(next_char) ==
    IF next_char = "\n" THEN <<>> ELSE <<next_char>>

escaped_in_double_quote(next_char) ==
    IF next_char = "\n" THEN <<>>
    ELSE IF next_char = "\"" THEN <<next_char>>
    ELSE <<"\\", next_char>>

\* The block of the loop for IN_DOUBLE_QUOTE.
in_double_quote(s, st) ==
    LET c == st.cursor
        j == Find(s, c, {"\"", "\\"})
    IN
    IF j >= Len(s) THEN Raise(st, "Unmatched double quote", c)
    ELSE LET collected == st.var_content \o SubSeq(s, c + 1, j) IN
         IF s[j + 1] = "\""
         THEN [st EXCEPT !.var_content = collected, !.cursor = j + 1,
                         !.state = "SCAN_VALUE"]
         ELSE LET num_backslashes == Skip(s, j, {"\\"}) - j
                  kept == collected \o Backslashes(num_backslashes \div 2)
                  after == j + num_backslashes
              IN
              IF num_backslashes % 2 # 0 /\ after < Len(s)
              THEN [st EXCEPT !.var_content = kept \o escaped_in_double_quote(s[after + 1]),
                              !.cursor = after + 1]
              ELSE [st EXCEPT !.var_content = kept, !.cursor = after]

\* One iteration of "while cursor < len(content)": the block of the current
\* state.  A block that changes the state and does not "continue" falls into
\* the next state's block, which is the next iteration's block as well.
loop_body(s, st) ==
    CASE st.state = "SCAN_VAR_NAME" -> scan_var_name(s, st)
      [] st.state = "SCAN_VALUE" -> scan_value(s, st)
      [] st.state = "IN_SINGLE_QUOTE" -> in_single_quote(s, st)
      [] st.state = "IN_DOUBLE_QUOTE" -> in_double_quote(s, st)

\* The locals of parse_env_file when the loop is entered.
Entry ==
    [cursor |-> 0, state |-> "SCAN_VAR_NAME", var_name |-> <<>>,
     var_content |-> <<>>, result |-> <<>>, error |-> NoError, pc |-> "loop"]

RECURSIVE RunLoop(_, _)
RunLoop(s, st) ==
    IF st.pc # "loop" THEN st
    ELSE IF st.cursor >= Len(s) THEN Return(st)
    ELSE RunLoop(s, loop_body(s, st))

\* parse_env_file(content_lines): the locals when it returns or raises.
parse_env_file(lines) == RunLoop(content(lines), Entry)

(* ------------------------ parse_env_file: inputs ---------------------- *)

\* Most strings of content_lines in a generated call.
MaxPieces == 3

\* The strings content_lines is built from.
Pieces ==
    { <<"A", "=">>,
      <<"A", "=", "a">>,
      <<"e", "x", "p", "o", "r", "t", " ", "B", "=", "b">>,
      <<"a">>,
      <<"\n">>,
      <<" ">>,
      <<";">>,
      <<"#">>,
      <<" ", "#", "B", "=", "b">>,
      <<"'">>,
      <<"\"">>,
      <<"\\">>,
      <<"\\", "\\">>,
      <<"A", "=", "'", "a">>,
      <<"A", "=", "\"", "a">>,
      <<"\"", "b", " ", "c", "\"">> }

RECURSIVE PieceSeqs(_)
PieceSeqs(n) ==
    IF n = 0 THEN { <<>> }
    ELSE PieceSeqs(n - 1)
         \cup { Append(ps, piece) : ps \in { q \in PieceSeqs(n - 1) : Len(q) = n - 1 },
                                     piece \in Pieces }

(* --------------------- parse_env_file: specification ------------------ *)

\* No validator call is in progress.
ValidatorIdle ==
    /\ value = NoValue
    /\ type_hint = AnyT
    /\ field_name = ""
    /\ schema_cls = "SimpleSchema"
    /\ data = NoData
    /\ ignore_errors = {}
    /\ errors = <<>>
    /\ logged = <<>>
    /\ result = Ok
    /\ settings_module_globals = NoData
    /\ error_log = <<>>

validator_vars ==
    <<value, type_hint, field_name, schema_cls, data, ignore_errors, errors,
      logged, result, settings_module_globals, error_log>>

EnvInit ==
    /\ call = "parse_env_file"
    /\ pc = "loop"
    /\ content_lines \in PieceSeqs(MaxPieces)
    /\ cursor = Entry.cursor
    /\ state = Entry.state
    /\ var_name = Entry.var_name
    /\ var_content = Entry.var_content
    /\ env_vars = Entry.result
    /\ parse_error = Entry.error
    /\ ValidatorIdle
    /\ LoadIdle
    /\ CastIdle
    /\ SchemaIdle

Locals ==
    [cursor |-> cursor, state |-> state, var_name |-> var_name,
     var_content |-> var_content, result |-> env_vars, error |-> parse_error,
     pc |-> pc]

Assign(st) ==
    /\ cursor' = st.cursor
    /\ state' = st.state
    /\ var_name' = st.var_name
    /\ var_content' = st.var_content
    /\ env_vars' = st.result
    /\ parse_error' = st.error
    /\ pc' = st.pc
    /\ UNCHANGED <<call, content_lines>>
    /\ UNCHANGED validator_vars
    /\ UNCHANGED load_state
    /\ UNCHANGED cast_state
    /\ UNCHANGED schema_state

InLoop ==
    /\ call = "parse_env_file"
    /\ pc = "loop"
    /\ cursor < Len(content(content_lines))

ScanVarName ==
    /\ InLoop
    /\ state = "SCAN_VAR_NAME"
    /\ Assign(scan_var_name(content(content_lines), Locals))

ScanValue ==
    /\ InLoop
    /\ state = "SCAN_VALUE"
    /\ Assign(scan_value(content(content_lines), Locals))

InSingleQuote ==
    /\ InLoop
    /\ state = "IN_SINGLE_QUOTE"
    /\ Assign(in_single_quote(content(content_lines), Locals))

InDoubleQuote ==
    /\ InLoop
    /\ state = "IN_DOUBLE_QUOTE"
    /\ Assign(in_double_quote(content(content_lines), Locals))

\* The loop condition fails: return result.
ReturnResult ==
    /\ call = "parse_env_file"
    /\ pc = "loop"
    /\ cursor >= Len(content(content_lines))
    /\ Assign(Return(Locals))

EnvNext ==
    \/ ScanVarName
    \/ ScanValue
    \/ InSingleQuote
    \/ InDoubleQuote
    \/ ReturnResult

EnvSpec == EnvInit /\ [][EnvNext]_vars

(* ------------------------------ load_env ------------------------------ *)

\* Directories are the chain from the filesystem root (1) down to the
\* current directory (Len(fs)); fs[i] tells whether directory i holds the
\* env file and whether it holds manage.py.  A path is absolute (dir is the
\* directory it starts from) or relative to the current directory, and
\* carries up leading '..' components in front of the file name.

\* Deepest current directory of a generated file system.
MaxDepth == 3

\* Most '..' components of a generated relative path.
MaxUp == 1

\* Path.parent: the root is its own parent.
Parent(d) == IF d <= 1 THEN 1 ELSE d - 1

\* Path.cwd()
Cwd(files) == Len(files)

\* The directory a path's file lies in once the '..' components are resolved.
RECURSIVE Up(_, _)
Up(d, n) == IF n = 0 THEN d ELSE Up(Parent(d), n - 1)

Locate(files, p) == Up(IF p.absolute THEN p.dir ELSE Cwd(files), p.up)

\* Path.exists()
Exists(files, p) == files[Locate(files, p)].env

\* search_dir / path
JoinPath(d, p) == IF p.absolute THEN p ELSE [absolute |-> TRUE, dir |-> d, up |-> p.up]

\* f.readlines() of the env file of directory d: the value of A tells the
\* directory, and kind tells what else the file holds.
RECURSIVE Repeat(_, _)
Repeat(ch, n) == IF n = 0 THEN <<>> ELSE <<ch>> \o Repeat(ch, n - 1)

FileKinds == {"one", "two", "bad"}

ReadLines(kind, d) ==
    LET first == <<"A", "=">> \o Repeat("a", d) IN
    CASE kind = "one" -> << first \o <<"\n">> >>
      [] kind = "two" -> << first \o <<"\n">>, <<"B", "=", "b">> >>
      [] OTHER -> << first \o <<"\n">>, <<"'">> >>

\* The for loop of load_env over env_vars.items().
RECURSIVE copy_items_Always(_, _, _)
copy_items_Always(items, ovr, env) ==
    IF items = <<>> THEN env
    ELSE copy_items_Always(Tail(items), ovr, Put(env, items[1].k, items[1].v))

RECURSIVE copy_items(_, _, _)
copy_items(items, ovr, env) ==
    IF items = <<>> THEN env
    ELSE copy_items(Tail(items), ovr,
                    IF ovr \/ items[1].k \notin Keys(PyDict(env))
                    THEN Put(env, items[1].k, items[1].v)
                    ELSE env)

\* File systems with the current directory at depth n.
RECURSIVE FileSystems(_)
FileSystems(n) ==
    IF n = 0 THEN { <<>> }
    ELSE { Append(files, [env |-> e, manage |-> m]) :
             files \in FileSystems(n - 1), e \in BOOLEAN, m \in BOOLEAN }

\* The path arguments of a call made in a current directory at depth n.
Paths(n) ==
    { [absolute |-> FALSE, dir |-> 0, up |-> u] : u \in 0..MaxUp }
    \cup { [absolute |-> TRUE, dir |-> d, up |-> 0] : d \in 1..n }

\* os.environ before the call.
Environs ==
    { <<>>,
      << E(<<"A">>, <<"x">>) >>,
      << E(<<"C">>, <<"z">>) >>,
      << E(<<"A">>, <<"x">>), E(<<"C">>, <<"z">>) >> }

LoadInit ==
    /\ call = "load_env"
    /\ pc = "enter"
    /\ \E n \in 1..MaxDepth :
          /\ fs \in FileSystems(n)
          /\ path_arg \in Paths(n)
    /\ file_kind \in FileKinds
    /\ override \in BOOLEAN
    /\ environ \in Environs
    /\ path = NoPath
    /\ search_dir = 0
    /\ calls = 1
    /\ EnvIdle
    /\ ValidatorIdle
    /\ CastIdle
    /\ SchemaIdle

\* What every step of load_env leaves alone.
LoadFrame ==
    /\ UNCHANGED <<call, fs, file_kind, path_arg, override, calls>>
    /\ UNCHANGED validator_vars
    /\ UNCHANGED cast_state
    /\ UNCHANGED schema_state

parser_locals == <<content_lines, cursor, state, var_name, var_content, env_vars,
                   parse_error>>

\* path = Path(path); a relative path that does not exist starts the walk.
Enter ==
    /\ call = "load_env"
    /\ pc = "enter"
    /\ path' = path_arg
    /\ IF ~path_arg.absolute /\ ~Exists(fs, path_arg)
       THEN pc' = "walk" /\ search_dir' = Cwd(fs)
       ELSE pc' = "open" /\ search_dir' = search_dir
    /\ UNCHANGED environ
    /\ UNCHANGED parser_locals
    /\ LoadFrame

\* One iteration of the while True loop.
Walk ==
    /\ call = "load_env"
    /\ pc = "walk"
    /\ IF Exists(fs, JoinPath(search_dir, path))
       THEN path' = JoinPath(search_dir, path) /\ pc' = "open" /\ search_dir' = search_dir
       ELSE IF fs[search_dir].manage \/ Parent(search_dir) = search_dir
       THEN path' = path /\ pc' = "open" /\ search_dir' = search_dir
       ELSE path' = path /\ pc' = "walk" /\ search_dir' = Parent(search_dir)
    /\ UNCHANGED environ
    /\ UNCHANGED parser_locals
    /\ LoadFrame

\* if not path.exists(): return; otherwise content_lines = f.readlines()
Open ==
    /\ call = "load_env"
    /\ pc = "open"
    /\ IF ~Exists(fs, path)
       THEN pc' = "returned" /\ content_lines' = content_lines
       ELSE pc' = "parse" /\ content_lines' = ReadLines(file_kind, Locate(fs, path))
    /\ UNCHANGED <<cursor, state, var_name, var_content, env_vars, parse_error>>
    /\ UNCHANGED <<path, search_dir, environ>>
    /\ LoadFrame

\* env_vars = parse_env_file(content_lines); a ParseError leaves load_env.
Parse ==
    /\ call = "load_env"
    /\ pc = "parse"
    /\ LET st == parse_env_file(content_lines) IN
          /\ cursor' = st.cursor
          /\ state' = st.state
          /\ var_name' = st.var_name
          /\ var_content' = st.var_content
          /\ env_vars' = st.result
          /\ parse_error' = st.error
          /\ pc' = IF st.pc = "raised" THEN "raised" ELSE "copy"
    /\ UNCHANGED <<content_lines, path, search_dir, environ>>
    /\ LoadFrame

\* for key, value in env_vars.items(): ...; the function returns.
Copy ==
    /\ call = "load_env"
    /\ pc = "copy"
    /\ environ' = copy_items(env_vars, override, environ)
    /\ pc' = "returned"
    /\ UNCHANGED <<path, search_dir>>
    /\ UNCHANGED parser_locals
    /\ LoadFrame

\* The caller calls load_env again with the same arguments.
CallAgain ==
    /\ call = "load_env"
    /\ pc = "returned"
    /\ calls = 1
    /\ calls' = 2
    /\ pc' = "enter"
    /\ path' = NoPath
    /\ search_dir' = 0
    /\ content_lines' = <<>>
    /\ cursor' = 0
    /\ state' = "SCAN_VAR_NAME"
    /\ var_name' = <<>>
    /\ var_content' = <<>>
    /\ env_vars' = <<>>
    /\ parse_error' = NoError
    /\ UNCHANGED <<call, fs, file_kind, path_arg, override, environ>>
    /\ UNCHANGED validator_vars
    /\ UNCHANGED cast_state
    /\ UNCHANGED schema_state

LoadNext ==
    \/ Enter
    \/ Walk
    \/ Open
    \/ Parse
    \/ Copy
    \/ CallAgain

LoadSpec == LoadInit /\ [][LoadNext]_vars

(* ---------------------------- cast_to_type ---------------------------- *)

\* The text of a str is a sequence of characters here, so that lowering,
\* parsing and splitting are computed and not looked up.

\* str.lower() on the letters that occur.
LowerChar(c) ==
    CASE c = "T" -> "t" [] c = "R" -> "r" [] c = "U" -> "u" [] c = "E" -> "e"
      [] c = "F" -> "f" [] c = "A" -> "a" [] c = "L" -> "l" [] c = "S" -> "s"
      [] c = "N" -> "n" [] c = "O" -> "o"
      [] OTHER -> c

Lower(text) == [i \in 1..Len(text) |-> LowerChar(text[i])]

\* str.strip()
RECURSIVE LStrip(_)
LStrip(text) ==
    IF text # <<>> /\ text[1] = " " THEN LStrip(Tail(text)) ELSE text

RECURSIVE RStrip(_)
RStrip(text) ==
    IF text # <<>> /\ text[Len(text)] = " "
    THEN RStrip(SubSeq(text, 1, Len(text) - 1)) ELSE text

Strip(text) == RStrip(LStrip(text))

DigitChars == {"0", "1", "2", "3"}

IsDigits(text) == text # <<>> /\ \A i \in 1..Len(text) : text[i] \in DigitChars

\* The digits of a number without its leading zeros.
RECURSIVE NoLeadingZeros(_)
NoLeadingZeros(digits) ==
    IF Len(digits) > 1 /\ digits[1] = "0" THEN NoLeadingZeros(Tail(digits)) ELSE digits

RECURSIVE NoTrailingZeros(_)
NoTrailingZeros(digits) ==
    IF Len(digits) > 1 /\ digits[Len(digits)] = "0"
    THEN NoTrailingZeros(SubSeq(digits, 1, Len(digits) - 1)) ELSE digits

\* int(text) succeeds: an optional sign and digits, blanks around them.
ParsesInt(text) ==
    LET t == Strip(text) IN
    \/ IsDigits(t)
    \/ t # <<>> /\ t[1] = "-" /\ IsDigits(Tail(t))

\* repr(int(text))
IntOf(text) ==
    LET t == Strip(text) IN
    IF t[1] = "-"
    THEN IF NoLeadingZeros(Tail(t)) = <<"0">> THEN <<"0">>
         ELSE <<"-">> \o NoLeadingZeros(Tail(t))
    ELSE NoLeadingZeros(t)

\* Where the decimal point of a text is (0: nowhere).
PointAt(text) ==
    IF \E i \in 1..Len(text) : text[i] = "."
    THEN CHOOSE i \in 1..Len(text) : text[i] = "." /\ \A j \in 1..(i - 1) : text[j] # "."
    ELSE 0

\* float(text) succeeds: an integer, or digits around one decimal point.
ParsesFloat(text) ==
    LET t == Strip(text)
        u == IF t # <<>> /\ t[1] = "-" THEN Tail(t) ELSE t
        p == PointAt(u)
    IN
    \/ IsDigits(u)
    \/ /\ p > 0
       /\ Len(u) > 1
       /\ p = 1 \/ IsDigits(SubSeq(u, 1, p - 1))
       /\ p = Len(u) \/ IsDigits(SubSeq(u, p + 1, Len(u)))

\* repr(float(text))
FloatOf(text) ==
    LET t == Strip(text)
        neg == t[1] = "-"
        u == IF neg THEN Tail(t) ELSE t
        p == PointAt(u)
        whole == IF p = 0 THEN u ELSE IF p = 1 THEN <<"0">> ELSE SubSeq(u, 1, p - 1)
        frac == IF p = 0 \/ p = Len(u) THEN <<"0">> ELSE SubSeq(u, p + 1, Len(u))
    IN
    (IF neg THEN <<"-">> ELSE <<>>)
      \o NoLeadingZeros(whole) \o <<".">> \o NoTrailingZeros(frac)

\* [item.strip() for item in text.split(delimiter)]
RECURSIVE Split(_, _)
Split(text, delimiter) ==
    IF \E i \in 1..Len(text) : text[i] = delimiter
    THEN LET i == CHOOSE k \in 1..Len(text) :
                     text[k] = delimiter /\ \A j \in 1..(k - 1) : text[j] # delimiter
         IN << Strip(SubSeq(text, 1, i - 1)) >>
              \o Split(SubSeq(text, i + 1, Len(text)), delimiter)
    ELSE << Strip(text) >>

sTrue == <<"T", "r", "u", "e">>
sFalse == <<"F", "a", "l", "s", "e">>

\* The bool branch that takes every unrecognised text for False.
cast_bool_ElseFalse(v) ==
    IF v.t # "str" THEN v
    ELSE IF Lower(v.s) \in { <<"t", "r", "u", "e">>, <<"1">> } THEN PyBool(sTrue)
    ELSE PyBool(sFalse)

\* bool fields: 'true'/'1' and 'false'/'0', whatever the case.
cast_bool(v) ==
    IF v.t # "str" THEN v
    ELSE IF Lower(v.s) \in { <<"t", "r", "u", "e">>, <<"1">> } THEN PyBool(sTrue)
    ELSE IF Lower(v.s) \in { <<"f", "a", "l", "s", "e">>, <<"0">> } THEN PyBool(sFalse)
    ELSE v

\* int and float fields: parse or leave unchanged.
cast_int(v) == IF v.t = "str" /\ ParsesInt(v.s) THEN PyInt(IntOf(v.s)) ELSE v
cast_float(v) == IF v.t = "str" /\ ParsesFloat(v.s) THEN PyFloat(FloatOf(v.s)) ELSE v

\* None, or the text 'none' in any case.
IsNoneText(v) == v.t = "NoneType" \/ (v.t = "str" /\ Lower(v.s) = <<"n", "o", "n", "e">>)

RECURSIVE cast_to_type(_, _, _)
RECURSIVE cast_union(_, _, _, _)

\* Optional/union fields: the first alternative whose cast changes the value.
cast_union(v, args, i, delimiter) ==
    IF i > Len(args) THEN v
    ELSE IF args[i] = NoneT THEN cast_union(v, args, i + 1, delimiter)
    ELSE IF cast_to_type(v, args[i], delimiter) # v
    THEN cast_to_type(v, args[i], delimiter)
    ELSE cast_union(v, args, i + 1, delimiter)

cast_to_type(v, h, delimiter) ==
    CASE h.k = "Union" ->
           IF IsNoneText(v) THEN PyNone ELSE cast_union(v, h.args, 1, delimiter)
      [] h = T("bool") -> cast_bool(v)
      [] h = T("int") -> cast_int(v)
      [] h = T("float") -> cast_float(v)
      [] h = T("list") ->
           IF v.t = "str"
           THEN PyList([i \in 1..Len(Split(v.s, delimiter)) |->
                          PyStr(Split(v.s, delimiter)[i])])
           ELSE v
      [] h.k = "list" ->
           IF v.t = "str"
           THEN PyList([i \in 1..Len(Split(v.s, delimiter)) |->
                          cast_to_type(PyStr(Split(v.s, delimiter)[i]), h.args[1],
                                       delimiter)])
           ELSE v
      [] OTHER -> v

\* The texts of a generated call.
CastTexts ==
    { sTrue, <<"t", "r", "u", "e">>, <<"T", "R", "U", "E">>, <<"1">>,
      sFalse, <<"f", "a", "l", "s", "e">>, <<"0">>,
      <<"m", "a", "y", "b", "e">>, <<"1", "2", "3">>, <<"a", "b", "c">>,
      <<"1", ".", "2", "3">>, <<"-", "0", "1">>, <<"1", ".", "2", ".", "3">>,
      <<"N", "o", "n", "e">>, <<>>,
      <<"a", ",", "b", ",", "c">>, <<"1", ",", "2", ",", "3">>, <<"1", ",", "x">>,
      <<"a", " ", "|", " ", "b">> }

CastValues ==
    { PyStr(text) : text \in CastTexts }
    \cup { PyNone, PyBool(sTrue), PyInt(<<"1">>), PyList(<< PyStr(<<"a">>) >>) }

CastHints ==
    { T("bool"), T("int"), T("float"), T("str"), T("list"), ListOf(T("int")),
      Optional(T("int")), Optional(T("bool")), UnionOf(<<T("int"), T("bool")>>),
      UnionOf(<<T("bool"), T("int")>>), AnyT }

CastInit ==
    /\ call = "cast_to_type"
    /\ pc = "start"
    /\ value \in CastValues
    /\ type_hint \in CastHints
    /\ list_delimiter \in {",", "|"}
    /\ returned = PyNone
    /\ field_name = ""
    /\ schema_cls = "SimpleSchema"
    /\ data = NoData
    /\ ignore_errors = {}
    /\ errors = <<>>
    /\ logged = <<>>
    /\ result = Ok
    /\ settings_module_globals = NoData
    /\ error_log = <<>>
    /\ EnvIdle
    /\ LoadIdle
    /\ SchemaIdle

\* return cast_to_type(value, type_hint, list_delimiter)
CastToType ==
    /\ call = "cast_to_type"
    /\ pc = "start"
    /\ returned' = cast_to_type(value, type_hint, list_delimiter)
    /\ result' = Ok
    /\ pc' = "done"
    /\ UNCHANGED <<call, value, type_hint, list_delimiter, field_name, schema_cls,
                   data, ignore_errors, errors, logged, settings_module_globals,
                   error_log>>
    /\ UNCHANGED env_state
    /\ UNCHANGED load_state
    /\ UNCHANGED schema_state

CastNext == CastToType

CastSpec == CastInit /\ [][CastNext]_vars

(* ----------------------------- BaseSchema ----------------------------- *)

\* A schema object is its class and its instance __dict__: the entries of
\* the dataclass fields in declaration order, then the ad-hoc attributes in
\* the order they were set.

\* Attributes every schema object has through its class: the methods of
\* BaseSchema and of the MutableMapping mixin that the generated keys meet.
ClassAttributes == {"to_dict", "keys"}

\* getattr(self, key) for an attribute found on the class.
Method(key) == Scalar("method", key)

\* key.startswith('_')
startswith_underscore(key) == key \in {"_private"}

Returned(v) == [raised |-> "", value |-> v]
Raised(exc) == [raised |-> exc, value |-> PyNone]

\* hasattr(self, key)
hasattr(o, key) == Has(PyDict(o.dict), key) \/ key \in ClassAttributes

\* getattr(self, key)
getattr(o, key) ==
    IF Has(PyDict(o.dict), key) THEN Returned(Get(PyDict(o.dict), key))
    ELSE IF key \in ClassAttributes THEN Returned(Method(key))
    ELSE Raised("AttributeError")

\* setattr(self, key, value)
setattr(o, key, v) == [o EXCEPT !.dict = Put(o.dict, key, v)]

\* delattr(self, key), for an attribute of the instance.
delattr(o, key) ==
    [o EXCEPT !.dict = SelectSeq(o.dict, LAMBDA e : e.k # key)]

\* BaseSchema.__getitem__
getitem(o, key) == IF ~hasattr(o, key) THEN Raised("KeyError") ELSE getattr(o, key)

\* BaseSchema.__setitem__
setitem(o, key, v) == setattr(o, key, v)

\* BaseSchema.__delitem__: what it raises, and the object afterwards.
delitem_raises(o, key) ==
    \/ ~hasattr(o, key)
    \/ key \notin FieldNames(o.cls) /\ ~Has(PyDict(o.dict), key)

delitem(o, key) ==
    IF delitem_raises(o, key) THEN o
    ELSE IF key \in FieldNames(o.cls) THEN setattr(o, key, PyNone)
    ELSE delattr(o, key)

\* BaseSchema.__iter__: the keys in the order they are yielded.
iter(o) ==
    [i \in 1..Len(fields(o.cls)) |-> fields(o.cls)[i].name]
      \o SelectSeq([i \in 1..Len(o.dict) |-> o.dict[i].k],
                   LAMBDA k : k \notin FieldNames(o.cls) /\ ~startswith_underscore(k))

\* BaseSchema.__len__
len(o) == Len(iter(o))

\* Mapping.__contains__
contains(o, key) == getitem(o, key).raised # "KeyError"

\* MutableMapping.setdefault: the object afterwards and the value returned.
setdefault_obj(o, key, default) ==
    IF getitem(o, key).raised = "KeyError" THEN setitem(o, key, default) ELSE o

setdefault_value(o, key, default) ==
    IF getitem(o, key).raised = "KeyError" THEN Returned(default) ELSE getitem(o, key)

\* MutableMapping.update(other) for a mapping given by its entries.
RECURSIVE update(_, _)
update(o, entries) ==
    IF entries = <<>> THEN o
    ELSE update(setitem(o, entries[1].k, entries[1].v), Tail(entries))

\* The keys and the values the operations are called with.
SchemaKeys == {"NAME", "OPTIONS", "EXTRA", "_private", "to_dict"}
SchemaValues == { PyNone, PyStr("a") }

\* The mappings update is called with.
Updates ==
    { << E(k, v) >> : k \in SchemaKeys, v \in SchemaValues }
    \cup { << E("OPTIONS", PyStr("a")), E("EXTRA", PyStr("a")) >>,
           << E("EXTRA", PyStr("a")), E("_private", PyNone) >> }

\* AuthPasswordValidatorSchema(NAME=...): OPTIONS gets its default.
NewObject(name) ==
    [cls |-> "AuthPasswordValidatorSchema",
     dict |-> << E("NAME", name), E("OPTIONS", PyDict(<<>>)) >>]

SchemaInit ==
    /\ call = "BaseSchema"
    /\ pc = "ready"
    /\ obj = NewObject(PyStr("MinimumLengthValidator"))
    /\ op = NoOp
    /\ outcome = NoOutcome
    /\ ValidatorIdle
    /\ EnvIdle
    /\ LoadIdle
    /\ CastIdle

SchemaFrame ==
    /\ UNCHANGED <<call, pc>>
    /\ UNCHANGED validator_vars
    /\ UNCHANGED env_state
    /\ UNCHANGED load_state
    /\ UNCHANGED cast_state

Called(name, key, v) == [name |-> name, key |-> key, value |-> v]

\* schema[key]
GetItem ==
    /\ call = "BaseSchema"
    /\ \E key \in SchemaKeys :
          /\ op' = Called("__getitem__", key, PyNone)
          /\ outcome' = getitem(obj, key)
          /\ obj' = obj
    /\ SchemaFrame

\* schema.key
GetAttr ==
    /\ call = "BaseSchema"
    /\ \E key \in SchemaKeys :
          /\ op' = Called("__getattr__", key, PyNone)
          /\ outcome' = getattr(obj, key)
          /\ obj' = obj
    /\ SchemaFrame

\* schema[key] = value
SetItem ==
    /\ call = "BaseSchema"
    /\ \E key \in SchemaKeys, v \in SchemaValues :
          /\ op' = Called("__setitem__", key, v)
          /\ outcome' = Returned(PyNone)
          /\ obj' = setitem(obj, key, v)
    /\ SchemaFrame

\* del schema[key]
DelItem ==
    /\ call = "BaseSchema"
    /\ \E key \in SchemaKeys :
          /\ op' = Called("__delitem__", key, PyNone)
          /\ outcome' = IF delitem_raises(obj, key) THEN Raised("KeyError")
                        ELSE Returned(PyNone)
          /\ obj' = delitem(obj, key)
    /\ SchemaFrame

\* schema.setdefault(key, default)
SetDefault ==
    /\ call = "BaseSchema"
    /\ \E key \in SchemaKeys, default \in SchemaValues :
          /\ op' = Called("setdefault", key, default)
          /\ outcome' = setdefault_value(obj, key, default)
          /\ obj' = setdefault_obj(obj, key, default)
    /\ SchemaFrame

\* schema.update(other)
Update ==
    /\ call = "BaseSchema"
    /\ \E entries \in Updates :
          /\ op' = Called("update", "", PyDict(entries))
          /\ outcome' = Returned(PyNone)
          /\ obj' = update(obj, entries)
    /\ SchemaFrame

\* key in schema
Contains ==
    /\ call = "BaseSchema"
    /\ \E key \in SchemaKeys :
          /\ op' = Called("__contains__", key, PyNone)
          /\ outcome' = Returned(PyBool(IF contains(obj, key) THEN "True" ELSE "False"))
          /\ obj' = obj
    /\ SchemaFrame

\* list(schema) and len(schema)
Iterate ==
    /\ call = "BaseSchema"
    /\ \/ /\ op' = Called("__iter__", "", PyNone)
          /\ outcome' = Returned(PyList([i \in 1..Len(iter(obj)) |-> PyStr(iter(obj)[i])]))
       \/ /\ op' = Called("__len__", "", PyNone)
          /\ outcome' = Returned(PyInt(ToString(len(obj))))
    /\ obj' = obj
    /\ SchemaFrame

SchemaNext ==
    \/ GetItem
    \/ GetAttr
    \/ SetItem
    \/ DelItem
    \/ SetDefault
    \/ Update
    \/ Contains
    \/ Iterate

SchemaSpec == SchemaInit /\ [][SchemaNext]_vars

(* ------------------------------- claims ------------------------------- *)

InSeq(x, seq) == \E i \in 1..Len(seq) : seq[i] = x

DataCall == call = "validate_data_against_schema"
TypeCall == call = "validate_type"
FieldsChecked == DataCall /\ pc \in {"unknown", "raise", "done"}
DataDone == DataCall /\ pc = "done"
TypeDone == TypeCall /\ pc = "done"

\* The declared required fields that data lacks and the ignore list does not name.
MissingRequired ==
    { fields(schema_cls)[i].name : i \in
        { j \in 1..Len(fields(schema_cls)) :
            /\ fields(schema_cls)[j].required
            /\ ~Has(data, fields(schema_cls)[j].name)
            /\ fields(schema_cls)[j].name \notin ignore_errors } }

\* The declared fields whose present, not ignored value fails its type check.
Mistyped ==
    { j \in 1..Len(fields(schema_cls)) :
        /\ Has(data, fields(schema_cls)[j].name)
        /\ fields(schema_cls)[j].name \notin ignore_errors
        /\ validate_type(Get(data, fields(schema_cls)[j].name),
                         fields(schema_cls)[j].hint,
                         fields(schema_cls)[j].name).raised }

\* C1: validate_data_against_schema reports its failures as one batch: every
\* required field that is absent and not ignored has its own "Missing
\* required setting" message, every mistyped field has its own type message
\* whatever the other fields are, and the one error raised carries all the
\* messages joined by newlines.
C1_CompleteBatch ==
    /\ FieldsChecked =>
          /\ \A n \in MissingRequired : InSeq("Missing required setting: " \o n, errors)
          /\ Cardinality({ i \in 1..Len(errors) :
                            \E n \in MissingRequired :
                                errors[i] = "Missing required setting: " \o n })
                = Cardinality(MissingRequired)
          /\ \A j \in Mistyped :
                InSeq(validate_type(Get(data, fields(schema_cls)[j].name),
                                    fields(schema_cls)[j].hint,
                                    fields(schema_cls)[j].name).msg, errors)
          /\ Len(errors) >= Cardinality(MissingRequired) + Cardinality(Mistyped)
    /\ DataDone =>
          /\ result.raised <=> errors # <<>>
          /\ result.raised => result.msg = Join(errors, "\n")

\* C1 witness: a finished call on a SimpleSchema mapping that omits two
\* required fields and mistypes the third, all three reported in one error.
C1_Witness ==
    /\ DataDone
    /\ schema_cls = "SimpleSchema"
    /\ MissingRequired = {"name", "age"}
    /\ Cardinality(Mistyped) = 1
    /\ result.raised
    /\ Len(errors) = 3

\* What the specification's descriptor contracts accept: a primitive takes
\* exactly its own type, a record class takes a dict (or an instance) holding
\* its required fields with conforming values, containers check their items.
RecordClasses == {"InnerSchema", "DatabaseSchema", "CacheSchema", "TemplateSchema",
                  "AuthPasswordValidatorSchema", "TaskSchema"}

RECURSIVE Conforms(_, _)
Conforms(v, h) ==
    CASE h.k = "Any" -> TRUE
      [] h.k = "Literal" -> v.t = "str"
      [] h.k = "Union" -> \E i \in 1..Len(h.args) : Conforms(v, h.args[i])
      [] h.k = "list" -> v.t = "list" /\ \A i \in 1..Len(v.items) : Conforms(v.items[i], h.args[1])
      [] h.k = "tuple" ->
            /\ v.t = "tuple"
            /\ IF h.var THEN \A i \in 1..Len(v.items) : Conforms(v.items[i], h.args[1])
               ELSE /\ Len(v.items) = Len(h.args)
                    /\ \A i \in 1..Len(v.items) : Conforms(v.items[i], h.args[i])
      [] h.k = "dict" -> v.t = "dict" /\ \A i \in 1..Len(v.items) : Conforms(v.items[i].v, h.args[2])
      [] h.k = "type" /\ h.name \in RecordClasses ->
            /\ v.t \in {"dict", h.name}
            /\ Keys(v) \subseteq FieldNames(h.name)
            /\ \A i \in 1..Len(fields(h.name)) :
                  LET f == fields(h.name)[i] IN
                  IF Has(v, f.name) THEN Conforms(Get(v, f.name), f.hint) ELSE ~f.required
      [] h.k = "type" /\ h.name = "Path" -> v.t = "PosixPath"
      [] OTHER -> v.t = h.name

\* data holds exactly the required fields of schema_cls, each conforming.
ExactlyRequiredAndConforming ==
    /\ Keys(data) = { fields(schema_cls)[i].name : i \in
                        { j \in 1..Len(fields(schema_cls)) : fields(schema_cls)[j].required } }
    /\ \A i \in 1..Len(fields(schema_cls)) :
          Has(data, fields(schema_cls)[i].name) =>
              Conforms(Get(data, fields(schema_cls)[i].name), fields(schema_cls)[i].hint)

\* C2: no false positives: a mapping that holds exactly the required fields,
\* each with a value of the correct type (a nested record given as a plain
\* mapping included), validates without raising.
C2_NoFalsePositives ==
    (DataDone /\ ExactlyRequiredAndConforming) => ~result.raised

\* C3: a boolean never passes an int field: validate_type(True, int, path)
\* and validate_type(False, int, path) raise.
C3_BoolIsNotInt ==
    (TypeDone /\ type_hint = T("int") /\ value.t = "bool") => result.raised

\* The strings of the model that are empty or made of decimal digits only.
DigitStrings == {"", "123"}

IsStrIntUnion(h) ==
    h \in { UnionOf(<< T("str"), T("int") >>), UnionOf(<< T("int"), T("str") >>) }

\* C4: for str | int (either order) an int is accepted, a string is accepted
\* only when it is empty or all digits, and any other string is rejected
\* with the "must be a valid integer string" message.
C4_StrIntUnionChecksDigits ==
    (TypeDone /\ IsStrIntUnion(type_hint)) =>
        /\ value.t = "int" => ~result.raised
        /\ value.t = "str" =>
              IF value.s \in DigitStrings THEN ~result.raised
              ELSE /\ result.raised
                   /\ result.msg = "'" \o field_name \o "' must be a valid integer string"

\* The names the claim's message lists: the alternatives' names in
\* declaration order, NoneType left out.
RECURSIVE C5_Names(_)
C5_Names(args) ==
    IF args = <<>> THEN <<>>
    ELSE (IF args[1].name = "NoneType" THEN <<>> ELSE << args[1].name >>)
         \o C5_Names(Tail(args))

\* "A, B or C": ", " between the names, one " or " before the last.
RECURSIVE C5_List(_)
C5_List(names) ==
    IF Len(names) = 1 THEN names[1]
    ELSE IF Len(names) = 2 THEN names[1] \o " or " \o names[2]
    ELSE names[1] \o ", " \o C5_List(Tail(names))

C6_ListItemsChecked ==
    (TypeDone /\ type_hint.k = "list" /\ value.t = "list") =>
        \A i \in 1..Len(value.items) :
            validate_type(value.items[i], type_hint.args[1],
                          field_name \o "[" \o ToString(i - 1) \o "]").raised
            => result.raised

\* C7: a mapping hint checks every entry's value; a CACHES entry that is not
\* a mapping is reported as "'CACHES['default']' must be a dict, got str".
C7_CachesEntryMustBeDict ==
    (DataDone /\ schema_cls = "SettingsSchema" /\ "CACHES" \notin ignore_errors
        /\ Has(data, "CACHES") /\ Get(data, "CACHES").t = "dict"
        /\ Has(Get(data, "CACHES"), "default")
        /\ Get(Get(data, "CACHES"), "default").t = "str")
    => InSeq("'CACHES['default']' must be a dict, got str", errors)

\* C8: a tuple hint of fixed arity N requires exactly N items, and a
\* variadic one checks every item against its item type.
C8_TupleArityAndItems ==
    (TypeDone /\ type_hint.k = "tuple" /\ value.t = "tuple") =>
        IF type_hint.var
        THEN (\E i \in 1..Len(value.items) :
                 validate_type(value.items[i], type_hint.args[1], field_name).raised)
             => result.raised
        ELSE Len(value.items) # Len(type_hint.args) => result.raised

\* The nested record entries of a SettingsSchema mapping as the claim counts
\* them: the dict entries of DATABASES, CACHES and TASKS and the dict elements
\* of TEMPLATES and AUTH_PASSWORD_VALIDATORS (list or tuple), each with its
\* dotted path, its bracketed label and its record class.
MappingEntries(name, cls) ==
    IF Has(data, name) /\ name \notin ignore_errors /\ Get(data, name).t = "dict"
    THEN { [prefix |-> name \o "." \o Get(data, name).items[i].k,
            label |-> name \o "['" \o Get(data, name).items[i].k \o "']",
            cls |-> cls, config |-> Get(data, name).items[i].v] :
           i \in { j \in 1..Len(Get(data, name).items) :
                     Get(data, name).items[j].v.t = "dict" } }
    ELSE {}

SequenceEntries(name, cls) ==
    IF Has(data, name) /\ name \notin ignore_errors /\ Get(data, name).t \in {"list", "tuple"}
    THEN { [prefix |-> name \o "." \o ToString(i - 1),
            label |-> name \o "[" \o ToString(i - 1) \o "]",
            cls |-> cls, config |-> Get(data, name).items[i]] :
           i \in { j \in 1..Len(Get(data, name).items) :
                     Get(data, name).items[j].t = "dict" } }
    ELSE {}

NestedEntries ==
    MappingEntries("DATABASES", "DatabaseSchema")
    \cup MappingEntries("CACHES", "CacheSchema")
    \cup MappingEntries("TASKS", "TaskSchema")
    \cup SequenceEntries("TEMPLATES", "TemplateSchema")
    \cup SequenceEntries("AUTH_PASSWORD_VALIDATORS", "AuthPasswordValidatorSchema")

\* C9: every unknown, not ignored key of every nested record entry is
\* reported as "Invalid key '{key}' in {container-path}" and makes the
\* validation fail.
C9_NestedUnknownKeyIsError ==
    (DataDone /\ schema_cls = "SettingsSchema") =>
        \A e \in NestedEntries :
            \A key \in Keys(e.config) \ FieldNames(e.cls) :
                (e.prefix \notin ignore_errors /\ (e.prefix \o "." \o key) \notin ignore_errors)
                => /\ result.raised
                   /\ \E i \in 1..Len(errors) :
                         \E tail \in { ". Did you mean: " \o Join(get_close_matches(key, e.cls), ", ") \o "?",
                                       ". Valid keys are: " \o SortedKeys(e.cls) } :
                            errors[i] = "Invalid key '" \o key \o "' in " \o e.label \o tail

\* data without the keys schema_cls does not declare.
Restricted ==
    PyDict(SelectSeq(data.items, LAMBDA e : e.k \in FieldNames(schema_cls)))

\* The keys of data that schema_cls does not declare.
UnknownKeys == Keys(data) \ FieldNames(schema_cls)

\* C10: unknown top-level keys never change the outcome: the call raises on
\* data exactly when it raises on data restricted to the declared fields,
\* with the same messages; an unknown key that is a close match of a field
\* name leaves nothing but a logged "Unknown setting ... Did you mean"
\* diagnostic and any other unknown key leaves nothing at all.
C10_UnknownTopLevelKeysIgnored ==
    DataDone =>
        /\ result = RaiseIfErrors(validate_data_against_schema(Restricted, schema_cls,
                                                               ignore_errors))
        /\ errors = validate_data_against_schema(Restricted, schema_cls, ignore_errors)
        /\ \A i \in 1..Len(logged) :
              \E k \in UnknownKeys :
                  /\ get_close_matches(k, schema_cls) # <<>>
                  /\ logged[i] = "Unknown setting '" \o k \o "'. Did you mean: "
                                 \o Join(get_close_matches(k, schema_cls), ", ") \o "?"
        /\ (\A k \in UnknownKeys : get_close_matches(k, schema_cls) = <<>>) => logged = <<>>

\* C10 witness: a finished, successful call whose data holds the misspelt
\* DEBUGG, which was logged and not raised.
C10_Witness ==
    /\ DataDone
    /\ schema_cls = "SettingsSchema"
    /\ Has(data, "DEBUGG")
    /\ Has(data, "SECRET_KEY")
    /\ logged = << "Unknown setting 'DEBUGG'. Did you mean: DEBUG?" >>
    /\ ~result.raised

\* A sequence of messages, each tagged with the dotted paths that cover it:
\* its own path and the path's dotted-prefix ancestors.
Tag(msgs, anc) == [i \in 1..Len(msgs) |-> [anc |-> anc, msg |-> msgs[i]]]

\* The errors of one nested entry validated with nothing ignored, each at the
\* path of the key or field it is about.
LocatedNested(top, prefix, label, cls, config) ==
    Flatten([i \in 1..Len(config.items) |->
                Tag(InvalidKeyError(config.items[i].k, prefix, label, cls, {}),
                    {top, prefix, prefix \o "." \o config.items[i].k})])
    \o Flatten([i \in 1..Len(fields(cls)) |->
                Tag(NestedFieldError(fields(cls)[i], prefix, label, config, {}),
                    {top, prefix, prefix \o "." \o fields(cls)[i].name})])

\* The record class of the entries of a top-level container the validator
\* walks, "" for every other field.
EntryClass(name) ==
    CASE name = "DATABASES" -> "DatabaseSchema"
      [] name = "CACHES" -> "CacheSchema"
      [] name = "TEMPLATES" -> "TemplateSchema"
      [] name = "AUTH_PASSWORD_VALIDATORS" -> "AuthPasswordValidatorSchema"
      [] OTHER -> ""

\* The errors of one declared field validated with nothing ignored: the
\* field's own error at the field's path, else its entries' errors.
LocatedField(f, d) ==
    IF ~Has(d, f.name) \/ validate_type(Get(d, f.name), f.hint, f.name).raised
    THEN Tag(FieldErrors(f, d, {}), {f.name})
    ELSE LET v == Get(d, f.name) IN
         IF f.name \in {"DATABASES", "CACHES"} /\ v.t = "dict"
         THEN Flatten([i \in 1..Len(v.items) |->
                IF v.items[i].v.t = "dict"
                THEN LocatedNested(f.name, f.name \o "." \o v.items[i].k,
                                   f.name \o "['" \o v.items[i].k \o "']",
                                   EntryClass(f.name), v.items[i].v)
                ELSE <<>>])
         ELSE IF f.name \in {"TEMPLATES", "AUTH_PASSWORD_VALIDATORS"} /\ v.t = "list"
         THEN Flatten([i \in 1..Len(v.items) |->
                IF v.items[i].t = "dict"
                THEN LocatedNested(f.name, f.name \o "." \o ToString(i - 1),
                                   f.name \o "[" \o ToString(i - 1) \o "]",
                                   EntryClass(f.name), v.items[i])
                ELSE <<>>])
         ELSE <<>>

Located(d, cls) ==
    Flatten([i \in 1..Len(fields(cls)) |-> LocatedField(fields(cls)[i], d)])

Messages(located) == [i \in 1..Len(located) |-> located[i].msg]

\* C11: ignore-path matching is exact and prefix-inclusive: of the errors the
\* mapping has with nothing ignored, each located at a dotted path, the ones
\* reported under an ignore list are exactly, and in the same order, those
\* whose path and dotted-prefix ancestors are all absent from the list; so
\* ignoring 'DATABASES.default' silences the whole entry and ignoring one
\* field's path silences that field only.
C11_IgnoreIsPrefixInclusive ==
    (DataCall /\ pc = "unknown") =>
        /\ Messages(Located(data, schema_cls)) = SchemaErrors(data, schema_cls, {})
        /\ errors = Messages(SelectSeq(Located(data, schema_cls),
                                  LAMBDA e : e.anc \cap ignore_errors = {}))

\* C11 witness: with 'DATABASES.default.INVALID_KEY' ignored, an entry holding
\* two invalid keys still has the other one reported, and only that one.
C11_Witness ==
    /\ DataDone
    /\ schema_cls = "SettingsSchema"
    /\ ignore_errors = {"DATABASES.default.INVALID_KEY"}
    /\ Has(data, "SECRET_KEY") /\ Get(data, "SECRET_KEY").t = "str"
    /\ Has(data, "DATABASES")
    /\ Get(data, "DATABASES") = PyDict(<< E("default", TwoBadKeysDb) >>)
    /\ Len(errors) = 1
    /\ errors[1] = "Invalid key 'ANOTHER_INVALID' in DATABASES['default']. Valid keys are: "
                   \o SortedKeys("DatabaseSchema")

SettingsCall == call = "validate_settings"
SettingsReturned == SettingsCall /\ pc = "returned"

\* C12: validate_settings never propagates an error: it always returns
\* normally; when validation passes it logs "Settings are valid" and no
\* error record, when it fails it logs exactly one "INVALID SETTINGS" record
\* that carries every aggregated message; the keys starting with "__" are
\* left out of the mapping that is validated.
C12_ValidateSettingsNeverRaises ==
    /\ (SettingsCall /\ pc # "start") =>
          /\ Keys(data) = { k \in Keys(settings_module_globals) : ~StartsWithDunder(k) }
          /\ \A k \in Keys(data) : Get(data, k) = Get(settings_module_globals, k)
    /\ SettingsReturned =>
          /\ ~result.raised
          /\ IF Iterable(get_ignore_errors(settings_module_globals))
             THEN LET all == validate_data_against_schema(
                                data, "SettingsSchema",
                                Members(get_ignore_errors(settings_module_globals)))
                  IN IF all = <<>>
                     THEN /\ error_log = <<>>
                          /\ InSeq("Settings are valid.", logged)
                     ELSE /\ error_log = << "INVALID SETTINGS: " \o Join(all, "\n") >>
                          /\ ~InSeq("Settings are valid.", logged)
             ELSE /\ Len(error_log) = 1
                  /\ ~InSeq("Settings are valid.", logged)

\* C12 witness: a returned call on module globals that hold a dunder name
\* and lack SECRET_KEY: one error record, normal return.
C12_Witness ==
    /\ SettingsReturned
    /\ Has(settings_module_globals, "__name__")
    /\ Has(settings_module_globals, "DEBUG")
    /\ Get(settings_module_globals, "DEBUG").t = "str"
    /\ ~Has(settings_module_globals, "SECRET_KEY")
    /\ ~Has(settings_module_globals, "TYPED_SETTINGS_IGNORE_ERRORS")
    /\ error_log = << "INVALID SETTINGS: Missing required setting: SECRET_KEY\n"
                      \o "'DEBUG' must be bool, got str" >>
    /\ ~result.raised

\* C13: validation is read-only: no step of validate_type changes the value
\* it is given, no step of validate_data_against_schema changes the mapping
\* (at any depth) or the ignore list it is given, and no step of
\* validate_settings changes the caller's module globals, the ignore list
\* they hold included, whether validation succeeds or fails.
C13_ValidationIsReadOnly ==
    [][ /\ call = "validate_type" => value' = value /\ type_hint' = type_hint
        /\ (call = "validate_data_against_schema" \/ (SettingsCall /\ pc # "start"))
              => data' = data /\ ignore_errors' = ignore_errors
        /\ settings_module_globals' = settings_module_globals ]_vars

\* C13 witness: a failed validate_data_against_schema call whose mapping
\* holds a nested entry and an undeclared key, and a finished
\* validate_settings call that failed.
C13_Witness ==
    \/ /\ DataDone
       /\ result.raised
       /\ ignore_errors # {}
       /\ Has(data, "DATABASES") /\ Get(data, "DATABASES").t = "dict"
       /\ Has(data, "SOME_NEW_SETTING")
    \/ /\ SettingsReturned
       /\ error_log # <<>>
       /\ Has(settings_module_globals, "TYPED_SETTINGS_IGNORE_ERRORS")

EnvCall == call = "parse_env_file"
EnvReturned == EnvCall /\ pc = "returned"
EnvRaised == EnvCall /\ pc = "raised"

\* The strings that open a statement '[export ]NAME=VALUE', with the NAME and
\* the part of the VALUE they hold.
Headers ==
    { <<"A", "=">>, <<"A", "=", "a">>,
      <<"e", "x", "p", "o", "r", "t", " ", "B", "=", "b">> }

HeaderName(piece) == IF piece[1] = "A" THEN <<"A">> ELSE <<"B">>

HeaderValue(piece) ==
    CASE piece = <<"A", "=">> -> <<>>
      [] piece = <<"A", "=", "a">> -> <<"a">>
      [] OTHER -> <<"b">>

\* The strings that may continue a VALUE: free of whitespace, ';', quotes
\* and backslashes.
ValueText == { <<"a">>, <<"#">>, <<"A", "=">>, <<"A", "=", "a">> }

\* content_lines read as statements separated by single newlines, the last
\* one with or without its newline: the statements read so far, or failure.
RECURSIVE SimpleStatements(_, _, _, _)
SimpleStatements(lines, i, in_statement, stmts) ==
    IF i > Len(lines) THEN [ok |-> TRUE, stmts |-> stmts]
    ELSE IF ~in_statement
    THEN IF lines[i] \in Headers
         THEN SimpleStatements(lines, i + 1, TRUE,
                  Append(stmts, E(HeaderName(lines[i]), HeaderValue(lines[i]))))
         ELSE [ok |-> FALSE, stmts |-> <<>>]
    ELSE IF lines[i] = <<"\n">>
    THEN SimpleStatements(lines, i + 1, FALSE, stmts)
    ELSE IF lines[i] \in ValueText
    THEN SimpleStatements(lines, i + 1, TRUE,
             [stmts EXCEPT ![Len(stmts)].v = @ \o lines[i]])
    ELSE [ok |-> FALSE, stmts |-> <<>>]

Simple(lines) == SimpleStatements(lines, 1, FALSE, <<>>)

\* The statements whose NAME no earlier statement has.
FirstAppearances(stmts) ==
    SelectSeq([i \in 1..Len(stmts) |-> [k |-> stmts[i].k, i |-> i]],
              LAMBDA e : \A j \in 1..(e.i - 1) : stmts[j].k # e.k)

\* The VALUE of the last statement that assigns name.
LastValue(stmts, name) ==
    stmts[CHOOSE i \in 1..Len(stmts) :
            /\ stmts[i].k = name
            /\ \A j \in (i + 1)..Len(stmts) : stmts[j].k # name].v

\* The mapping the statements denote: the NAMEs in order of first
\* appearance, each with the VALUE of its last statement.
Denoted(stmts) ==
    [i \in 1..Len(FirstAppearances(stmts)) |->
        E(FirstAppearances(stmts)[i].k, LastValue(stmts, FirstAppearances(stmts)[i].k))]

\* C14: for an input made only of statements '[export ]NAME=VALUE' separated
\* by newlines, parse_env_file raises nothing and returns the mapping whose
\* keys are the NAMEs in order of first appearance, each with its VALUE (of
\* the last statement when a NAME is repeated); 'export ' is dropped and a
\* last line without newline is parsed like any other.
C14_SimpleStatements ==
    (EnvCall /\ Simple(content_lines).ok) =>
        /\ pc # "raised"
        /\ pc = "returned" => env_vars = Denoted(Simple(content_lines).stmts)

\* C14 witness: 'A=a', newline, 'export B=b' without a final newline.
C14_Witness ==
    /\ EnvReturned
    /\ content_lines = << <<"A", "=", "a">>, <<"\n">>,
                          <<"e", "x", "p", "o", "r", "t", " ", "B", "=", "b">> >>
    /\ env_vars = << E(<<"A">>, <<"a">>), E(<<"B">>, <<"b">>) >>

\* The parser is about to run the block of parser state st.
About(st) == EnvCall /\ pc = "loop" /\ state = st /\ cursor < Len(content(content_lines))

\* The offset of the first backslash, quote, whitespace or ';' at or after
\* the cursor, and the length of the run of backslashes that starts at j.
NextTerminator == Find(content(content_lines), cursor, Terminators)
RunLength(j) == Skip(content(content_lines), j, {"\\"}) - j

\* A run of backslashes ends the unquoted text ahead of the cursor.
BackslashAhead ==
    /\ About("SCAN_VALUE")
    /\ content(content_lines)[NextTerminator + 1] = "\\"

\* C15: in an unquoted value a run of n backslashes emits n div 2
\* backslashes; for odd n the next character is consumed and emitted bare,
\* a newline being omitted, and for even n the next character is left to be
\* tokenized; the assignment goes on either way.  So 'A=a\<newline>' and
\* 'A=\a' both give A the value 'a', and 'A=\\a' gives it '\a'.
C15_UnquotedBackslashRuns ==
    /\ [][ BackslashAhead =>
             LET s == content(content_lines)
                 j == NextTerminator
                 n == RunLength(j)
                 text == var_content \o SubSeq(s, cursor + 1, j) \o Backslashes(n \div 2)
             IN /\ state' = "SCAN_VALUE" /\ pc' = "loop"
                /\ var_name' = var_name /\ env_vars' = env_vars
                /\ IF n % 2 = 1
                   THEN /\ cursor' = j + n + 1
                        /\ var_content' = IF s[j + n + 1] = "\n" THEN text
                                          ELSE Append(text, s[j + n + 1])
                   ELSE /\ cursor' = j + n
                        /\ var_content' = text
                        /\ s[cursor' + 1] # "\\" ]_vars
    /\ [](EnvReturned =>
            /\ content_lines = << <<"A", "=", "a">>, <<"\\">>, <<"\n">> >>
                  => env_vars = << E(<<"A">>, <<"a">>) >>
            /\ content_lines = << <<"A", "=">>, <<"\\">>, <<"a">> >>
                  => env_vars = << E(<<"A">>, <<"a">>) >>
            /\ content_lines = << <<"A", "=">>, <<"\\", "\\">>, <<"a">> >>
                  => env_vars = << E(<<"A">>, <<"\\", "a">>) >>
            /\ content_lines = << <<"A", "=">>, <<"\\">>, <<";">> >>
                  => env_vars = << E(<<"A">>, <<";">>) >>)

\* C15 witness: 'A=a\' at the end of a line: the newline was omitted and the
\* value committed at the end of the continuation.
C15_Witness ==
    /\ EnvReturned
    /\ content_lines = << <<"A", "=", "a">>, <<"\\">>, <<"\n">> >>
    /\ env_vars = << E(<<"A">>, <<"a">>) >>

\* The offset of the first double quote or backslash at or after the cursor.
NextInDoubleQuote == Find(content(content_lines), cursor, {"\"", "\\"})

\* Inside double quotes, a double quote or a backslash lies ahead.
DoubleQuoteAhead ==
    /\ About("IN_DOUBLE_QUOTE")
    /\ NextInDoubleQuote < Len(content(content_lines))

\* C16: inside double quotes a run of n backslashes emits n div 2
\* backslashes; for odd n the next character is consumed: a newline is
\* omitted, a double quote is emitted as a literal quote without closing the
\* region, any other character is emitted after one backslash; a double
\* quote that no backslash escapes closes the region and returns to
\* SCAN_VALUE.  So 'A="a\\"' gives A the value 'a\'.
C16_DoubleQuoteBackslashRuns ==
    /\ [][ DoubleQuoteAhead =>
             LET s == content(content_lines)
                 j == NextInDoubleQuote
                 n == RunLength(j)
                 text == var_content \o SubSeq(s, cursor + 1, j) \o Backslashes(n \div 2)
             IN /\ pc' = "loop" /\ var_name' = var_name /\ env_vars' = env_vars
                /\ IF s[j + 1] = "\""
                   THEN /\ state' = "SCAN_VALUE"
                        /\ cursor' = j + 1
                        /\ var_content' = var_content \o SubSeq(s, cursor + 1, j)
                   ELSE /\ state' = "IN_DOUBLE_QUOTE"
                        /\ IF n % 2 = 1
                           THEN /\ cursor' = j + n + 1
                                /\ var_content' =
                                      CASE s[j + n + 1] = "\n" -> text
                                        [] s[j + n + 1] = "\"" -> Append(text, "\"")
                                        [] OTHER -> text \o <<"\\", s[j + n + 1]>>
                           ELSE /\ cursor' = j + n
                                /\ var_content' = text ]_vars
    /\ [](EnvReturned =>
            /\ content_lines = << <<"A", "=", "\"", "a">>, <<"\\", "\\">>, <<"\"">> >>
                  => env_vars = << E(<<"A">>, <<"a", "\\">>) >>
            /\ content_lines = << <<"A", "=", "\"", "a">>, <<"\\">>, <<"a">>, <<"\"">> >>
                  => env_vars = << E(<<"A">>, <<"a", "\\", "a">>) >>
            /\ content_lines = << <<"A", "=", "\"", "a">>, <<"\\">>, <<"\"">>, <<"\"">> >>
                  => env_vars = << E(<<"A">>, <<"a", "\"">>) >>
            /\ content_lines = << <<"A", "=", "\"", "a">>, <<"\\">>, <<"\n">>, <<"\"">> >>
                  => env_vars = << E(<<"A">>, <<"a">>) >>)

\* C16 witness: inside 'A="a\a' the escaped 'a' has just been emitted with
\* its backslash and the region is still open.
C16_Witness ==
    /\ EnvCall /\ pc = "loop"
    /\ content_lines = << <<"A", "=", "\"", "a">>, <<"\\">>, <<"a">> >>
    /\ state = "IN_DOUBLE_QUOTE"
    /\ var_content = <<"a", "\\", "a">>
    /\ cursor = 6

\* The offset of the first single quote at or after the cursor.
NextSingleQuote == Find(content(content_lines), cursor, {"'"})

\* C17: closing a quoted region never commits the assignment: a closing
\* single quote takes the text before it verbatim and returns to SCAN_VALUE,
\* no step taken inside quotes changes the result, and the result changes
\* only in SCAN_VALUE, at a whitespace or ';' that ends the unquoted text,
\* to hold everything collected since the header; so segments written back
\* to back give one value, their concatenation.
C17_QuotesNeverCommit ==
    /\ [][ /\ (About("IN_SINGLE_QUOTE") /\ NextSingleQuote < Len(content(content_lines)))
               => /\ state' = "SCAN_VALUE" /\ pc' = "loop"
                  /\ cursor' = NextSingleQuote + 1
                  /\ var_content' = var_content
                        \o SubSeq(content(content_lines), cursor + 1, NextSingleQuote)
                  /\ var_name' = var_name
           /\ (EnvCall /\ state \in {"IN_SINGLE_QUOTE", "IN_DOUBLE_QUOTE"})
               => env_vars' = env_vars
           /\ (EnvCall /\ env_vars' # env_vars)
               => /\ state = "SCAN_VALUE" /\ state' = "SCAN_VAR_NAME"
                  /\ cursor' = NextTerminator
                  /\ content(content_lines)[cursor' + 1] \in Space \cup {";"}
                  /\ env_vars' = Put(env_vars, var_name, var_content
                        \o SubSeq(content(content_lines), cursor + 1, cursor')) ]_vars
    /\ [](EnvReturned =>
            /\ content_lines = << <<"A", "=", "a">>, <<"\"", "b", " ", "c", "\"">>, <<"a">> >>
                  => env_vars = << E(<<"A">>, <<"a", "b", " ", "c", "a">>) >>
            /\ content_lines = << <<"A", "=", "'", "a">>, <<"'">>, <<"\"", "b", " ", "c", "\"">> >>
                  => env_vars = << E(<<"A">>, <<"a", "b", " ", "c">>) >>
            /\ content_lines = << <<"A", "=", "'", "a">>, <<"\\">>, <<"'">> >>
                  => env_vars = << E(<<"A">>, <<"a", "\\">>) >>
            /\ content_lines = << <<"A", "=", "'", "a">>, <<"\"", "b", " ", "c", "\"">>, <<"'">> >>
                  => env_vars = << E(<<"A">>, <<"a", "\"", "b", " ", "c", "\"">>) >>
            /\ content_lines = << <<"A", "=", "\"", "a">>, <<"\"">>, <<"a">> >>
                  => env_vars = << E(<<"A">>, <<"a", "a">>) >>)

\* C17 witness: A=a"b c"a, three segments written back to back, gave the one
\* value 'ab ca'.
C17_Witness ==
    /\ EnvReturned
    /\ content_lines = << <<"A", "=", "a">>, <<"\"", "b", " ", "c", "\"">>, <<"a">> >>
    /\ env_vars = << E(<<"A">>, <<"a", "b", " ", "c", "a">>) >>

\* C18: an input that opens a single- or double-quoted region and ends
\* before the closing quote makes parse_env_file raise 'Unmatched single
\* quote' / 'Unmatched double quote': it never returns while inside a quoted
\* region.
C18_UnclosedQuoteRaises ==
    /\ EnvReturned => state \notin {"IN_SINGLE_QUOTE", "IN_DOUBLE_QUOTE"}
    /\ (EnvRaised /\ state = "IN_SINGLE_QUOTE") => parse_error.issue = "Unmatched single quote"
    /\ (EnvRaised /\ state = "IN_DOUBLE_QUOTE") => parse_error.issue = "Unmatched double quote"

\* lines holds, where a statement is expected (at the start of the input or
\* on a new line after well-formed statements), the identifier 'a' followed
\* by whitespace, ';' or the end of the input instead of '='.
BareIdentifier(lines) ==
    \E i \in 1..Len(lines) :
        /\ lines[i] = <<"a">>
        /\ \/ i = 1
           \/ /\ lines[i - 1] = <<"\n">>
              /\ Simple(SubSeq(lines, 1, i - 1)).ok
        /\ \/ i = Len(lines)
           \/ lines[i + 1] \in { <<"\n">>, <<" ">>, <<";">> }

\* C19: an input with an identifier that no '=' follows where a statement is
\* expected makes parse_env_file raise 'Expected assignment operator' or
\* 'Expected variable assignment', whatever precedes or follows it.
C19_BareIdentifierRaises ==
    (EnvCall /\ BareIdentifier(content_lines)) =>
        /\ pc # "returned"
        /\ pc = "raised" => parse_error.issue \in { "Expected assignment operator",
                                                    "Expected variable assignment" }

\* The number of '#' in a text.
RECURSIVE Hashes(_)
Hashes(text) ==
    IF text = <<>> THEN 0
    ELSE (IF text[1] = "#" THEN 1 ELSE 0) + Hashes(Tail(text))

\* Where a statement is expected, a '#' comes after optional whitespace and
\* ';'; CommentEnd is the offset of the newline that ends its line.
CommentAhead ==
    /\ About("SCAN_VAR_NAME")
    /\ Skip(content(content_lines), cursor, Skippable) < Len(content(content_lines))
    /\ content(content_lines)[Skip(content(content_lines), cursor, Skippable) + 1] = "#"

CommentEnd ==
    Find(content(content_lines), Skip(content(content_lines), cursor, Skippable), {"\n"})

\* C20: a '#' starts a comment only where a statement could begin: the step
\* taken there goes past the end of the comment's line without raising and
\* without touching the result, and a name it reads lies after the comment,
\* so the comment's text adds or changes no entry even when it holds
\* NAME=VALUE; every '#' met in an unquoted value or inside quotes goes into
\* the value.
C20_CommentsOnlyAtStatementStart ==
    /\ [][ /\ CommentAhead
               => /\ pc' = "loop"
                  /\ env_vars' = env_vars
                  /\ cursor' > CommentEnd
                  /\ var_name' # <<>> => cursor' - 1 - Len(var_name') > CommentEnd
           /\ (EnvCall /\ pc = "loop"
                  /\ state \in {"SCAN_VALUE", "IN_SINGLE_QUOTE", "IN_DOUBLE_QUOTE"})
               => Hashes(IF state' = "SCAN_VAR_NAME"
                           THEN Get(PyDict(env_vars'), var_name) ELSE var_content')
                    = Hashes(var_content)
                      + Hashes(SubSeq(content(content_lines), cursor + 1, cursor')) ]_vars
    /\ [](EnvReturned =>
            /\ content_lines = << <<"#">>, <<"A", "=", "a">> >> => env_vars = <<>>
            /\ content_lines = << <<";">>, <<"#">>, <<"A", "=", "a">> >> => env_vars = <<>>
            /\ content_lines = << <<"A", "=", "a">>, <<" ", "#", "B", "=", "b">>, <<"\n">> >>
                  => env_vars = << E(<<"A">>, <<"a">>) >>
            /\ content_lines = << <<" ", "#", "B", "=", "b">>, <<"\n">>, <<"A", "=", "a">> >>
                  => env_vars = << E(<<"A">>, <<"a">>) >>
            /\ content_lines = << <<"A", "=", "a">>, <<"#">>, <<"a">> >>
                  => env_vars = << E(<<"A">>, <<"a", "#", "a">>) >>
            /\ content_lines = << <<"A", "=">>, <<"#">>, <<"a">> >>
                  => env_vars = << E(<<"A">>, <<"#", "a">>) >>
            /\ content_lines = << <<"A", "=", "'", "a">>, <<"#">>, <<"'">> >>
                  => env_vars = << E(<<"A">>, <<"a", "#">>) >>
            /\ content_lines = << <<"A", "=", "\"", "a">>, <<" ", "#", "B", "=", "b">>, <<"\"">> >>
                  => env_vars = << E(<<"A">>, <<"a", " ", "#", "B", "=", "b">>) >>)

\* C20 witness: 'A=a #B=b' on one line: the trailing comment was skipped and
\* the result holds A alone.
C20_Witness ==
    /\ EnvReturned
    /\ content_lines = << <<"A", "=", "a">>, <<" ", "#", "B", "=", "b">>, <<"\n">> >>
    /\ env_vars = << E(<<"A">>, <<"a">>) >>

(* -------------------------------- C21 --------------------------------- *)

\* C21: every ParseError raised by parse_env_file reports a line number
\* between 1 and the number of input lines and a column between 1 and the
\* length of that line.
C21_ErrorLocationInInput ==
    EnvRaised =>
        LET at == ErrorLocation(parse_error, content_lines) IN
        /\ at.line_num \in 1..Len(content_lines)
        /\ at.position \in 1..Len(content_lines[at.line_num])

(* -------------------------------- C22 --------------------------------- *)

LoadCall == call = "load_env"
LoadReturned == LoadCall /\ pc = "returned"

\* The value of a variable of an environment.
Env(env, k) == Get(PyDict(env), k)
EnvKeys(env) == Keys(PyDict(env))

\* C22: the step of load_env that copies the parsed keys sets, with
\* override=False, exactly the keys that were absent and keeps every
\* variable already present; with override=True it sets every key of the
\* file to the file's value; in both modes the variables the file does not
\* name keep their values and none is removed; no other step of load_env
\* touches the environment, and a second call with the same file and mode
\* changes nothing.
C22_LoadEnvDoesNotClobber ==
    [][ LoadCall =>
          /\ pc # "copy" => environ' = environ
          /\ pc = "copy" =>
                /\ EnvKeys(environ') = EnvKeys(environ) \cup EnvKeys(env_vars)
                /\ \A k \in EnvKeys(environ) \ EnvKeys(env_vars) :
                      Env(environ', k) = Env(environ, k)
                /\ \A k \in EnvKeys(env_vars) \ EnvKeys(environ) :
                      Env(environ', k) = Env(env_vars, k)
                /\ \A k \in EnvKeys(env_vars) \cap EnvKeys(environ) :
                      Env(environ', k) = IF override THEN Env(env_vars, k)
                                         ELSE Env(environ, k)
                /\ file_kind = "two" =>
                      /\ Env(env_vars, <<"A">>) = Repeat("a", Locate(fs, path))
                      /\ Env(env_vars, <<"B">>) = <<"b">>
          /\ calls = 2 => environ' = environ ]_vars

\* C22 witness: a second call with override=False has returned; the file
\* named A and B, the environment held A and C: A and C kept their values
\* and B was added.
C22_Witness ==
    /\ LoadReturned
    /\ calls = 2
    /\ ~override
    /\ file_kind = "two"
    /\ environ = << E(<<"A">>, <<"x">>), E(<<"C">>, <<"z">>), E(<<"B">>, <<"b">>) >>

(* -------------------------------- C23 --------------------------------- *)

\* The call was made with a relative path that the current directory does
\* not hold, so the upward walk runs.
Walked == LoadCall /\ ~path_arg.absolute /\ ~Exists(fs, path_arg)

\* The directories from the current one upward that hold manage.py.
Marked == { d \in 1..Cwd(fs) : fs[d].manage }

\* The nearest of them.
NearestMarked == CHOOSE d \in Marked : \A other \in Marked : other <= d

\* C23: for a relative path absent from the current directory, each
\* iteration of the walk looks for the file before it looks for manage.py,
\* stops at the first directory with the file, the first with manage.py or
\* the root, and otherwise moves one directory up, so the walk ends; a file
\* that gets read is never located strictly above the nearest directory
\* holding manage.py; and when no file is found load_env returns without
\* raising and leaves the environment alone.
C23_WalkStopsAtProjectRoot ==
    /\ [][ (Walked /\ pc = "walk") =>
             /\ Exists(fs, JoinPath(search_dir, path))
                   => pc' = "open" /\ path' = JoinPath(search_dir, path)
             /\ (~Exists(fs, JoinPath(search_dir, path))
                   /\ (fs[search_dir].manage \/ search_dir = 1))
                   => pc' = "open" /\ path' = path
             /\ pc' = "walk" => search_dir' = search_dir - 1 /\ search_dir' >= 1
             /\ environ' = environ ]_vars
    /\ [][ (Walked /\ pc = "open" /\ ~Exists(fs, path))
             => pc' = "returned" /\ environ' = environ ]_vars
    /\ []((Walked /\ pc \in {"parse", "copy", "raised"} /\ Marked # {})
             => Locate(fs, path) >= NearestMarked)

(* -------------------------------- C24 --------------------------------- *)

\* C24: no value of the mapping that parse_env_file returns holds a newline
\* character: an assignment goes past the end of its line only through a
\* backslash before the newline, and then the newline is left out.
C24_NoNewlineInValues ==
    EnvReturned =>
        \A i \in 1..Len(env_vars) : ~InSeq("\n", env_vars[i].v)

(* -------------------------------- C25 --------------------------------- *)

\* What is left for the loop to do: the characters after the cursor, counted
\* twice, and one more while a value is being collected.
Variant ==
    2 * (Len(content(content_lines)) - cursor)
      + (IF state = "SCAN_VAR_NAME" THEN 0 ELSE 1)

\* C25: parse_env_file ends on every input, by returning or by raising: the
\* cursor never goes back and never passes the end of content, a step of
\* the loop that does not end the call moves the cursor or changes the
\* parser state, and each such step lowers a natural number, so the loop
\* cannot run for ever; once the cursor is at the end the call returns.
C25_ParserTerminates ==
    /\ [][ (EnvCall /\ pc = "loop") =>
             /\ cursor' >= cursor
             /\ cursor' <= Len(content(content_lines))
             /\ pc' \in {"loop", "returned", "raised"}
             /\ pc' = "loop" =>
                   /\ <<cursor', state'>> # <<cursor, state>>
                   /\ Variant' < Variant
                   /\ Variant' >= 0 ]_vars
    /\ [](EnvCall =>
            /\ cursor \in 0..Len(content(content_lines))
            /\ (pc = "loop" /\ cursor >= Len(content(content_lines)))
                  => ENABLED ReturnResult)

\* C25 witness: a call over three lines that took steps in all four parser
\* states has returned with the cursor on the newline that ends content.
C25_Witness ==
    /\ EnvReturned
    /\ content_lines = << <<"A", "=", "'", "a">>, <<"'">>, <<"\"", "b", " ", "c", "\"">> >>
    /\ cursor = Len(content(content_lines)) - 1

(* -------------------------------- C26 --------------------------------- *)

CastDone == call = "cast_to_type" /\ pc = "done"

\* r is a value of the type h asks for.
RECURSIVE Coerced(_, _)
Coerced(r, h) ==
    CASE h.k = "Union" ->
           r.t = "NoneType" \/ \E i \in 1..Len(h.args) : Coerced(r, h.args[i])
      [] h.k = "list" ->
           r.t = "list"
      [] OTHER -> r.t = h.name

TrueTexts == { sTrue, <<"t", "r", "u", "e">>, <<"T", "R", "U", "E">>, <<"1">> }
FalseTexts == { sFalse, <<"f", "a", "l", "s", "e">>, <<"0">> }

\* Texts that are no number.
NotANumber ==
    { <<"m", "a", "y", "b", "e">>, <<"a", "b", "c">>, <<"1", ".", "2", ".", "3">>,
      <<"N", "o", "n", "e">>, <<>>, <<"a", ",", "b", ",", "c">>, <<"1", ",", "x">>,
      sTrue, sFalse }

\* C26: cast_to_type does not raise and returns the value it was given or
\* a value of the type asked for; for bool the texts 'true' and '1' in any
\* case give True, 'false' and '0' give False and every other text comes
\* back unchanged; for int and float a text that is no number comes back
\* unchanged.
C26_CastNeverRaises ==
    CastDone =>
        /\ ~result.raised
        /\ returned = value \/ Coerced(returned, type_hint)
        /\ (type_hint = T("bool") /\ value.t = "str") =>
              returned = IF value.s \in TrueTexts THEN PyBool(sTrue)
                         ELSE IF value.s \in FalseTexts THEN PyBool(sFalse)
                         ELSE value
        /\ (type_hint = T("int") /\ value.t = "str"
              /\ value.s \in NotANumber \cup { <<"1", ".", "2", "3">> })
              => returned = value
        /\ (type_hint = T("float") /\ value.t = "str" /\ value.s \in NotANumber)
              => returned = value
        /\ (type_hint = T("int") /\ value = PyStr(<<"1", "2", "3">>))
              => returned = PyInt(<<"1", "2", "3">>)
        /\ (type_hint = T("float") /\ value = PyStr(<<"1", ".", "2", "3">>))
              => returned = PyFloat(<<"1", ".", "2", "3">>)

\* C26 witness: cast_to_type('maybe', bool) has returned 'maybe'.
C26_Witness ==
    /\ CastDone
    /\ type_hint = T("bool")
    /\ value = PyStr(<<"m", "a", "y", "b", "e">>)
    /\ returned = value

(* -------------------------------- C27 --------------------------------- *)

SchemaCall == call = "BaseSchema"

\* The keys set on the object beside its declared fields.
AdHoc(o) == Keys(PyDict(o.dict)) \ FieldNames(o.cls)

\* C27: whatever mapping operations are applied, every declared field stays
\* a key of the schema object; deleting a declared field sets it to None and
\* keeps the key; deleting an ad-hoc key removes it, and reading it as an
\* attribute then raises AttributeError; deleting or reading a key that is
\* neither a declared field nor an ad-hoc key raises KeyError; setdefault on
\* a key whose value is None returns None and changes nothing.
C27_FieldsStayKeys ==
    /\ [](SchemaCall =>
            \A f \in FieldNames(obj.cls) :
               /\ contains(obj, f)
               /\ InSeq(f, iter(obj))
               /\ getitem(obj, f).raised = "")
    /\ [][ SchemaCall =>
             /\ (op'.name = "__delitem__" /\ op'.key \in FieldNames(obj.cls)) =>
                   /\ outcome'.raised = ""
                   /\ getitem(obj', op'.key) = Returned(PyNone)
                   /\ InSeq(op'.key, iter(obj'))
             /\ (op'.name = "__delitem__" /\ op'.key \in AdHoc(obj)) =>
                   /\ outcome'.raised = ""
                   /\ op'.key \notin AdHoc(obj')
                   /\ getattr(obj', op'.key).raised = "AttributeError"
             /\ (op'.name \in {"__delitem__", "__getitem__"}
                   /\ op'.key \notin FieldNames(obj.cls) \cup AdHoc(obj)) =>
                   /\ outcome'.raised = "KeyError"
                   /\ obj' = obj
             /\ (op'.name = "setdefault" /\ op'.key \in Keys(PyDict(obj.dict))
                   /\ Get(PyDict(obj.dict), op'.key) = PyNone) =>
                   /\ outcome' = Returned(PyNone)
                   /\ obj' = obj ]_vars

(* -------------------------------- C29 --------------------------------- *)

\* C29: after any sequence of mapping operations, for every key, 'key in
\* schema' holds exactly when schema[key] does not raise KeyError and
\* exactly when iterating the schema yields the key; no key is yielded
\* twice and len(schema) is the number of keys yielded.  Names of methods
\* and ad-hoc keys that start with '_' are keys like any other.
C29_MembershipLookupIterationAgree ==
    SchemaCall =>
        /\ \A key \in SchemaKeys :
              /\ contains(obj, key) <=> getitem(obj, key).raised # "KeyError"
              /\ contains(obj, key) <=> InSeq(key, iter(obj))
        /\ \A i, j \in 1..Len(iter(obj)) : iter(obj)[i] = iter(obj)[j] => i = j
        /\ len(obj) = Cardinality({ iter(obj)[i] : i \in 1..Len(iter(obj)) })

(* -------------------------------- C28 --------------------------------- *)

\* C28: no assignment is dropped: a name whose 'NAME=' header was read stays
\* pending until its value is stored under it, no key ever leaves the
\* result, and parse_env_file does not return while a name is pending, so
\* every name read is a key of the mapping returned, with its last value.
C28_NoAssignmentDropped ==
    /\ [][ EnvCall =>
             /\ (var_name # <<>> /\ var_name' # var_name)
                   => Has(PyDict(env_vars'), var_name)
             /\ Keys(PyDict(env_vars)) \subseteq Keys(PyDict(env_vars')) ]_vars
    /\ [](EnvReturned =>
            /\ var_name = <<>>
            /\ content_lines = << <<"A", "=", "a">>, <<"\n">>, <<"A", "=">> >>
                  => env_vars = << E(<<"A">>, <<>>) >>)

(* -------------------------------- C30 --------------------------------- *)

\* The list with the entries of a tuple, in the same order.
AsList(v) == IF v.t = "tuple" THEN PyList(v.items) ELSE v

\* d with the tuples given for TEMPLATES and AUTH_PASSWORD_VALIDATORS
\* replaced by lists.
WithLists(d) ==
    PyDict([i \in 1..Len(d.items) |->
              IF d.items[i].k \in {"TEMPLATES", "AUTH_PASSWORD_VALIDATORS"}
              THEN E(d.items[i].k, AsList(d.items[i].v))
              ELSE d.items[i]])

\* C30: the errors validate_data_against_schema collects for a
\* configuration that gives TEMPLATES or AUTH_PASSWORD_VALIDATORS as a tuple
\* of entries are the errors it collects for the same configuration with
\* the entries in a list.
C30_TupleAsList ==
    (DataCall /\ schema_cls = "SettingsSchema" /\ pc \in {"raise", "done"}) =>
        errors = validate_data_against_schema(WithLists(data), schema_cls, ignore_errors)

====
